---- MODULE Spec2Model ----
(***************************************************************************)
(* Detection ingestion and real-time synchronisation of Shelter-Map.       *)
(*                                                                         *)
(* The Event Store is the Postgres table public.detections of the          *)
(* migration (column types, CHECK constraints, realtime publication); the  *)
(* producer is CameraFeed.saveDetectionToDatabase; the consumer is the     *)
(* Supabase-backed DetectionMap (catch-up query plus postgres_changes      *)
(* subscription).  The page Index owns the recording switch and the list   *)
(* DetectionStats summarises; CameraFeed looks the position up, runs the   *)
(* mock detector on an interval and submits what it makes up.              *)
(***************************************************************************)
EXTENDS Integers, Sequences, FiniteSets, TLC

VARIABLES
    detections,     \* table public.detections: rows in commit order
    request,        \* the insert a client has sent and the database not yet run
    now,            \* the database clock read by DEFAULT now()
    lastError,      \* `error` of the last answered insert (what the client logs)
    mounted,        \* per consumer: the DetectionMap component is mounted
    chan,           \* per consumer: state of its realtime channel
    joinedAt,       \* per consumer: number of rows committed when its join took effect
    inbox,          \* per consumer: change notifications in transit on its socket
    received,       \* per consumer: payloads its callback has been called with
    mapDetections,  \* per consumer: the `detections` state of DetectionMap
    loads,          \* per consumer: loadDetections calls in flight, in issue order
    stale,          \* per consumer: how many of them, the first ones, were issued
                    \* before the call whose response was applied last
    geoProvider,    \* the browser has navigator.geolocation or not
    tab,            \* Index: the tab selected, whose content is mounted
    isRecording,    \* Index: isRecording, the isActive prop of CameraFeed
    needsSupabase,  \* Index: needsSupabase, the notice is shown
    pageLocation,   \* Index: userLocation, as rendered last
    pagePending,    \* Index: the setUserLocation value queued for the next render
    pageGeo,        \* Index: state of its getCurrentPosition call
    pageDetections, \* Index: detections, the list DetectionStats is given
    pageUpdates,    \* Index: detections appended by setDetections, not yet rendered
    typeStats,      \* DetectionStats: what getTypeStats returned at the last render
    contextStats,   \* DetectionStats: what getContextStats returned at the last render
    recentDetections, \* DetectionStats: what getRecentDetections returned then
    camLocation,    \* CameraFeed: userLocation, as rendered last
    camPending,     \* CameraFeed: the setUserLocation value queued for the next render
    camGeo,         \* CameraFeed: getCurrentPosition calls not yet called back
    lastGeo,        \* CameraFeed: how its last finished location lookup ended
    ticker,         \* CameraFeed: live setInterval handles of the mock detector
    effectDue,      \* CameraFeed: the effect on userLocation has yet to run
    closureCam,     \* CameraFeed userLocation seen by the saveDetectionToDatabase
                    \* the ticker holds
    closureLocation,\* Index userLocation seen by the onDetection the ticker holds
    overlay,        \* CameraFeed: detections, the boxes drawn over the video
    timers,         \* CameraFeed: ids whose removal setTimeout is pending
    calls,          \* saveDetectionToDatabase calls past their insert, not yet resumed
    clientNow,      \* the browser clock, in ticks of the detector
    clientMs,       \* the browser clock: time passed since the last tick
    lastLog         \* the last console line of saveDetectionToDatabase

vars == <<detections, request, now, lastError, mounted, chan, joinedAt, inbox,
          received, mapDetections, loads, stale, geoProvider, tab, isRecording,
          needsSupabase, pageLocation, pagePending, pageGeo, pageDetections,
          pageUpdates, typeStats, camLocation, camPending, camGeo, lastGeo,
          ticker, effectDue, closureCam, closureLocation, overlay, timers,
          calls, clientNow, clientMs, contextStats, recentDetections, lastLog>>

storeVars == <<detections, request, now, lastError>>
consumerVars ==
    <<mounted, chan, joinedAt, inbox, received, mapDetections, loads, stale>>
statsVars == <<typeStats, contextStats, recentDetections>>
geoVars == <<pageLocation, pagePending, pageGeo>>
listVars == <<pageDetections, pageUpdates, statsVars>>
\* what the browser gives the page and what its user has selected
browserVars == <<geoProvider, tab>>
pageVars == <<browserVars, isRecording, needsSupabase, geoVars, listVars>>
camGeoVars == <<camLocation, camPending, camGeo, lastGeo>>
intervalVars == <<ticker, effectDue, closureCam, closureLocation>>
overlayVars == <<overlay, timers>>
clockVars == <<clientNow, clientMs>>
\* the producer's state but the calls of saveDetectionToDatabase
besideCalls ==
    <<pageVars, camGeoVars, intervalVars, overlayVars, clockVars, lastLog>>
cameraVars ==
    <<camGeoVars, intervalVars, overlayVars, calls, clockVars, lastLog>>
producerVars == <<pageVars, cameraVars>>

(***************************************************************************)
(* Bounds of the model.                                                    *)
(***************************************************************************)
\* rows the table may hold in the synchronisation model
MaxStore == 2
\* rows the table may hold in the query model
MaxQueryStore == 3
\* rows the table may hold in the ingestion model
MaxIngest == 2
\* highest reading of the database clock
MaxClock == 2
\* loadDetections calls one consumer may have in flight
MaxLoads == 1
\* stand-in for the catch-up window .limit(50) in the synchronisation model,
\* scaled so that it can bite
CatchUpLimit == 1
\* stand-in for the catch-up window .limit(50) in the query model
QueryLimit == 3
\* stand-in for the capacity of a subscriber's queue of undelivered
\* notifications, scaled so that a publish can find it full
QueueCapacity == 1
\* ticks of the mock detector
MaxTicks == 2
\* ticks of the mock detector in the models where one detection is enough
MaxBriefTicks == 1
\* location lookups CameraFeed may have in flight
MaxLookups == 1
\* steps of the browser clock between two ticks
MaxMs == 1
\* detections the page may show in the statistics model
MaxShown == 3
\* events the page holds when the contexts are ranked
MaxContextEvents == 4
\* events the page holds when the recent activity is listed
MaxRecentEvents == 6
\* ticks of the detector when the overlay is watched
MaxOverlayTicks == 6
\* loadDetections calls of a consumer in flight when refreshes overlap
MaxRefreshLoads == 2
\* rows the table may hold in the two-consumer model
MaxFanoutStore == 2

\* browsers that may show a DetectionMap
Consumers == {1, 2}
\* values gen_random_uuid() may return: enough for every row of any model
MaxRows ==
    LET m == IF MaxStore > MaxQueryStore THEN MaxStore ELSE MaxQueryStore
        n == IF m > MaxIngest THEN m ELSE MaxIngest
        k == IF n > MaxFanoutStore THEN n ELSE MaxFanoutStore
    IN  IF k > MaxTicks THEN k ELSE MaxTicks
UUIDs == 1..MaxRows

(***************************************************************************)
(* Decimal numbers.  A decimal is sign, integer part and `scale` digits of *)
(* fraction: (-1)^neg * (int + frac / 10^scale).                           *)
(***************************************************************************)
RECURSIVE Pow10(_)
Pow10(n) == IF n = 0 THEN 1 ELSE 10 * Pow10(n - 1)

Dec(neg, int, frac, scale) ==
    [neg |-> neg, int |-> int, frac |-> frac, scale |-> scale]

\* v <= w for decimals of the same scale
DecLeq(v, w) ==
    LET magLeq(x, y) == x.int < y.int \/ (x.int = y.int /\ x.frac <= y.frac)
    IN  IF v.neg /\ ~w.neg THEN TRUE
        ELSE IF ~v.neg /\ w.neg THEN FALSE
        ELSE IF v.neg THEN magLeq(w, v)
        ELSE magLeq(v, w)

\* the outcome of a coercion that raises numeric field overflow
Overflow == [overflow |-> TRUE]

\* Coercion of an input value to a column of type DECIMAL(precision, scale):
\* the fraction is rounded to `scale` digits, half away from zero, and a
\* result of more than precision - scale integer digits is a numeric field
\* overflow.
NumericCoerce(v, precision, scale) ==
    LET drop  == v.scale - scale
        unit  == IF drop > 0 THEN Pow10(drop) ELSE 1
        q     == IF drop > 0 THEN v.frac \div unit
                 ELSE v.frac * Pow10(-drop)
        r     == IF drop > 0 THEN v.frac % unit ELSE 0
        f1    == IF 2 * r >= unit /\ drop > 0 THEN q + 1 ELSE q
        carry == f1 = Pow10(scale)
        int2  == IF carry THEN v.int + 1 ELSE v.int
        frac2 == IF carry THEN 0 ELSE f1
        zero  == int2 = 0 /\ frac2 = 0
    IN  IF int2 >= Pow10(precision - scale) THEN Overflow
        ELSE Dec(v.neg /\ ~zero, int2, frac2, scale)

(***************************************************************************)
(* The table definition: column types and CHECK constraints.               *)
(***************************************************************************)
ObjectTypes == {"tent", "blanket", "cardboard"}
Contexts == {"street", "park", "subway", "bus", "train", "unknown"}

LatPrecision == 10
LatScale == 8
LonPrecision == 11
LonScale == 8
ConfidencePrecision == 5
ConfidenceScale == 4

\* variant: the type list lets a fourth value through
ObjectTypeCheckExtra(row) == row.object_type \in ObjectTypes \cup {"bed"}
ObjectTypeCheck(row) == row.object_type \in ObjectTypes
ContextCheck(row) == row.context \in Contexts
\* variant: the upper bound of the confidence CHECK is missing
ConfidenceCheckNoUpper(row) ==
    DecLeq(Dec(FALSE, 0, 0, ConfidenceScale), row.confidence)
ConfidenceCheck(row) ==
    /\ DecLeq(Dec(FALSE, 0, 0, ConfidenceScale), row.confidence)
    /\ DecLeq(row.confidence, Dec(FALSE, 1, 0, ConfidenceScale))

\* Postgres tests the CHECK constraints of a row in alphabetical order of
\* their names: detections_confidence_check, detections_context_check,
\* detections_object_type_check.  The first one that fails is reported.
CheckOrder == <<"confidence", "context", "object_type">>

CheckHolds(name, row) ==
    CASE name = "confidence"  -> ConfidenceCheck(row)
      [] name = "context"     -> ContextCheck(row)
      [] name = "object_type" -> ObjectTypeCheck(row)

NoError == [code |-> "ok", field |-> "none"]
\* 22003 numeric_value_out_of_range: the message names no column
NumericOverflowError == [code |-> "22003", field |-> "none"]
\* 23514 check_violation: the message names the constraint of one column
CheckViolation(name) == [code |-> "23514", field |-> name]

(***************************************************************************)
(* INSERT INTO public.detections.                                          *)
(***************************************************************************)
\* The values of the request coerced to the column types, or Overflow.
CoerceRow(d) ==
    LET lat  == NumericCoerce(d.lat, LatPrecision, LatScale)
        lon  == NumericCoerce(d.lon, LonPrecision, LonScale)
        conf == NumericCoerce(d.confidence, ConfidencePrecision, ConfidenceScale)
    IN  IF Overflow \in {lat, lon, conf} THEN Overflow
        ELSE [lat |-> lat, lon |-> lon, object_type |-> d.object_type,
              context |-> d.context, confidence |-> conf,
              timestamp |-> d.timestamp]

\* The first CHECK constraint, in firing order, that the row violates.
FirstFailingCheck(row) ==
    LET failing == {i \in 1..Len(CheckOrder) : ~CheckHolds(CheckOrder[i], row)}
    IN  IF failing = {} THEN "none"
        ELSE CheckOrder[CHOOSE i \in failing : \A j \in failing : i <= j]

\* `error` of the insert: none, a numeric overflow, or one violated CHECK.
InsertError(d) ==
    LET row == CoerceRow(d)
    IN  IF row = Overflow THEN NumericOverflowError
        ELSE IF FirstFailingCheck(row) # "none"
             THEN CheckViolation(FirstFailingCheck(row))
        ELSE NoError

\* The row as committed: the coerced values plus the column defaults.
StoredRow(d, id) ==
    LET row == CoerceRow(d)
    IN  [id |-> id, lat |-> row.lat, lon |-> row.lon,
         object_type |-> row.object_type, context |-> row.context,
         confidence |-> row.confidence, timestamp |-> row.timestamp,
         created_at |-> now]

UsedIds == {detections[i].id : i \in 1..Len(detections)}

\* variant: no PRIMARY KEY, and a generator that may repeat a value
AnyId == UUIDs

\* gen_random_uuid(): any value no row has yet
AnyUnusedId == UUIDs \ UsedIds

\* The same generator up to renaming of the ids: rows are numbered in
\* commit order.  Used where no property depends on the value of an id, only
\* on ids being distinct.
FirstUnusedId == {id \in AnyUnusedId : \A other \in AnyUnusedId : id <= other}

\* variant: the table is in two publications the channel listens to
PublishTwice(row) ==
    [c \in Consumers |->
        IF chan[c] = "subscribed"
        THEN Append(Append(inbox[c], row), row) ELSE inbox[c]]

\* variant: the table is missing from the realtime publication
PublishNothing(row) == inbox

\* The realtime publication: one change notification per committed row to
\* every channel that is subscribed at commit time.
Publish(row) ==
    [c \in Consumers |->
        IF chan[c] = "subscribed" THEN Append(inbox[c], row) ELSE inbox[c]]

NoRequest == [sent |-> FALSE]

\* saveDetectionToDatabase up to its await: detectionData is built and
\* supabase.from('detections').insert(detectionData) is sent
SaveDetection(d) ==
    /\ request = NoRequest
    /\ request' = d
    /\ UNCHANGED <<producerVars, detections, now, lastError, consumerVars>>

\* the API has run the insert of a call: its response, with this `error`,
\* is on its way to the call
Respond(error) ==
    calls' = {IF call.phase = "running"
              THEN [call EXCEPT !.phase = "executed", !.error = error]
              ELSE call : call \in calls}

\* the database runs the insert and answers: either `error` is set and
\* nothing is committed, or the row is committed, with an id out of
\* `fresh`, and published
InsertDetection(fresh) ==
    /\ request # NoRequest
    /\ request' = NoRequest
    /\ IF InsertError(request) # NoError
       THEN /\ lastError' = InsertError(request)
            /\ Respond(InsertError(request))
            /\ UNCHANGED <<besideCalls, detections, now, consumerVars>>
       ELSE \E id \in fresh :
               /\ detections' = Append(detections, StoredRow(request, id))
               /\ inbox' = Publish(StoredRow(request, id))
               /\ lastError' = NoError
               /\ Respond(NoError)
               /\ UNCHANGED <<besideCalls,
                              now, mounted, chan, joinedAt, received,
                              mapDetections, loads, stale>>

RemoveAt(seq, i) == SubSeq(seq, 1, i - 1) \o SubSeq(seq, i + 1, Len(seq))

\* variant: a permissive policy FOR ALL USING (true)
RowPoliciesForAll == {"SELECT", "INSERT", "UPDATE", "DELETE"}

\* Row level security is enabled and the table has two policies, one FOR
\* SELECT and one FOR INSERT; a command without a policy sees no row.
RowPolicies == {"SELECT", "INSERT"}

\* positions of the rows a command of a client may touch
RowsVisibleTo(command) ==
    IF command \in RowPolicies THEN 1..Len(detections) ELSE {}

\* a client sends DELETE ... WHERE id = <id of row k> through the API: the
\* rows the policies let it see are deleted, and it is told no error
DeleteDetection(k) ==
    /\ request = NoRequest
    /\ k \in 1..Len(detections)
    /\ detections' =
          IF k \in RowsVisibleTo("DELETE") THEN RemoveAt(detections, k)
          ELSE detections
    /\ UNCHANGED <<producerVars, request, now, lastError, consumerVars>>

\* a client sends UPDATE ... SET context = 'unknown' WHERE id = <id of row k>
UpdateDetection(k) ==
    /\ request = NoRequest
    /\ k \in 1..Len(detections)
    /\ detections' =
          IF k \in RowsVisibleTo("UPDATE")
          THEN [detections EXCEPT ![k].context = "unknown"]
          ELSE detections
    /\ UNCHANGED <<producerVars, request, now, lastError, consumerVars>>

\* the database clock advances
Tick ==
    /\ now < MaxClock
    /\ now' = now + 1
    /\ UNCHANGED <<producerVars, detections, request, lastError, consumerVars>>

(***************************************************************************)
(* Requests a client may send.                                             *)
(***************************************************************************)
NYCLat == Dec(FALSE, 40, 7128, 4)
NYCLon == Dec(TRUE, 74, 60, 4)

IngestConfidences ==
    { Dec(FALSE, 0, 85, 2),     \*  0.85
      Dec(FALSE, 1, 5, 1),      \*  1.5
      Dec(FALSE, 1, 4, 5),      \*  1.00004
      Dec(FALSE, 1, 5, 5),      \*  1.00005
      Dec(TRUE, 0, 4, 5),       \* -0.00004
      Dec(TRUE, 0, 5, 1),       \* -0.5
      Dec(FALSE, 15, 0, 1) }    \* 15.0
IngestLats == { NYCLat, Dec(FALSE, 95, 0, 1), Dec(FALSE, 100, 0, 1) }
IngestLons == { NYCLon, Dec(FALSE, 200, 0, 1) }

IngestCandidates ==
    [lat : IngestLats, lon : IngestLons,
     object_type : {"tent", "bed"},
     context : {"park", "unknown", "home"},
     confidence : IngestConfidences,
     timestamp : {1}]

\* detections observed at an earlier and at a later time, of a type the
\* table accepts and of one it refuses
SyncCandidates ==
    [lat : {NYCLat}, lon : {NYCLon}, object_type : {"tent", "bed"},
     context : {"park"}, confidence : {Dec(FALSE, 0, 85, 2)},
     timestamp : {1, 2}]

\* valid detections observed at three different times
QueryCandidates ==
    [lat : {NYCLat}, lon : {NYCLon}, object_type : {"tent"},
     context : {"park"}, confidence : {Dec(FALSE, 0, 85, 2)},
     timestamp : {1, 2, 3}]

(***************************************************************************)
(* SELECT * FROM detections ORDER BY timestamp DESC LIMIT n.                *)
(***************************************************************************)
\* the first n elements, all of them if fewer
Take(seq, n) == SubSeq(seq, 1, IF Len(seq) < n THEN Len(seq) ELSE n)

\* The orders in which the database may return the rows: descending by
\* the timestamp column, rows of equal timestamp in any order.
TimestampDescOrders(rows) ==
    {p \in Permutations(1..Len(rows)) :
        \A i, j \in 1..Len(rows) :
            i < j => rows[p[i]].timestamp >= rows[p[j]].timestamp}

\* The results the query may return on `rows`.
Query(rows, limit) ==
    {Take([i \in 1..Len(rows) |-> rows[p[i]]], limit) :
        p \in TimestampDescOrders(rows)}

(***************************************************************************)
(* DetectionMap: catch-up and live subscription.                           *)
(***************************************************************************)
SentLoad == [phase |-> "sent", at |-> 0, data |-> <<>>]
AnsweredLoad(at, data) == [phase |-> "answered", at |-> at, data |-> data]

\* mount effect: loadDetections() is called, then the channel is created
\* and .subscribe() sends the join
MountMap(c) ==
    /\ ~mounted[c]
    /\ mounted' = [mounted EXCEPT ![c] = TRUE]
    /\ mapDetections' = [mapDetections EXCEPT ![c] = <<>>]
    /\ loads' = [loads EXCEPT ![c] = <<SentLoad>>]
    /\ stale' = [stale EXCEPT ![c] = 0]
    /\ chan' = [chan EXCEPT ![c] = "joining"]
    /\ inbox' = [inbox EXCEPT ![c] = <<>>]
    /\ received' = [received EXCEPT ![c] = <<>>]
    /\ joinedAt' = [joinedAt EXCEPT ![c] = 0]

\* a DetectionMap mounts in the browser of consumer c
Mount(c) == MountMap(c) /\ UNCHANGED <<producerVars, storeVars>>

\* the realtime server registers the subscription
Subscribed(c) ==
    /\ chan[c] = "joining"
    /\ chan' = [chan EXCEPT ![c] = "subscribed"]
    /\ joinedAt' = [joinedAt EXCEPT ![c] = Len(detections)]
    /\ UNCHANGED <<producerVars,
                   storeVars, mounted, inbox, received, mapDetections, loads, stale>>

\* the database executes the query of a loadDetections call
ExecuteQuery(c, i, limit) ==
    /\ i \in 1..Len(loads[c])
    /\ loads[c][i].phase = "sent"
    /\ \E data \in Query(detections, limit) :
          loads' = [loads EXCEPT ![c][i] = AnsweredLoad(Len(detections), data)]
    /\ UNCHANGED <<producerVars,
                   storeVars, mounted, chan, joinedAt, inbox, received,
                   mapDetections, stale>>

\* loadDetections resumes with the response: setDetections(typedDetections).
\* The calls issued before this one that are still in flight are now older
\* than the result the view holds.
LoadDetectionsDone(c, i) ==
    /\ i \in 1..Len(loads[c])
    /\ loads[c][i].phase = "answered"
    /\ mapDetections' = [mapDetections EXCEPT ![c] = loads[c][i].data]
    /\ loads' = [loads EXCEPT ![c] = RemoveAt(loads[c], i)]
    /\ stale' = [stale EXCEPT ![c] = i - 1]
    /\ UNCHANGED <<producerVars,
                   storeVars, mounted, chan, joinedAt, inbox, received>>

\* loadDetections resumes with an error (or throws): logged, state untouched
LoadDetectionsError(c, i) ==
    /\ i \in 1..Len(loads[c])
    /\ loads' = [loads EXCEPT ![c] = RemoveAt(loads[c], i)]
    /\ stale' = [stale EXCEPT ![c] = IF i <= @ THEN @ - 1 ELSE @]
    /\ UNCHANGED <<producerVars,
                   storeVars, mounted, chan, joinedAt, inbox, received,
                   mapDetections>>

\* handleResetView: another loadDetections(), while fewer than limit calls
\* are in flight
LoadAgain(c, limit) ==
    /\ mounted[c]
    /\ Len(loads[c]) < limit
    /\ loads' = [loads EXCEPT ![c] = Append(loads[c], SentLoad)]
    /\ UNCHANGED <<producerVars,
                   storeVars, mounted, chan, joinedAt, inbox, received,
                   mapDetections, stale>>

HandleResetView(c) == LoadAgain(c, MaxLoads)

\* variant: the socket hands over the newest message it holds first
OnInsertPayloadNewestFirst(c) ==
    /\ chan[c] = "subscribed"
    /\ inbox[c] # <<>>
    /\ mapDetections' =
          [mapDetections EXCEPT
              ![c] = Append(mapDetections[c], inbox[c][Len(inbox[c])])]
    /\ received' =
          [received EXCEPT ![c] = Append(received[c], inbox[c][Len(inbox[c])])]
    /\ inbox' = [inbox EXCEPT ![c] = SubSeq(inbox[c], 1, Len(inbox[c]) - 1)]
    /\ UNCHANGED <<producerVars, storeVars, mounted, chan, joinedAt, loads, stale>>

\* the postgres_changes callback: setDetections(prev => [...prev, newDetection])
OnInsertPayload(c) ==
    /\ chan[c] = "subscribed"
    /\ inbox[c] # <<>>
    /\ mapDetections' =
          [mapDetections EXCEPT ![c] = Append(mapDetections[c], Head(inbox[c]))]
    /\ received' = [received EXCEPT ![c] = Append(received[c], Head(inbox[c]))]
    /\ inbox' = [inbox EXCEPT ![c] = Tail(inbox[c])]
    /\ UNCHANGED <<producerVars, storeVars, mounted, chan, joinedAt, loads, stale>>

\* the socket of the realtime client drops: what was in transit is lost and
\* the client starts to rejoin the channel
Disconnect(c) ==
    /\ chan[c] = "subscribed"
    /\ chan' = [chan EXCEPT ![c] = "rejoining"]
    /\ inbox' = [inbox EXCEPT ![c] = <<>>]
    /\ UNCHANGED <<producerVars, storeVars, mounted, joinedAt, received,
                   mapDetections, loads, stale>>

\* the realtime server registers the channel again; .subscribe() was given
\* no status callback, so no code of DetectionMap runs
Rejoined(c) ==
    /\ chan[c] = "rejoining"
    /\ chan' = [chan EXCEPT ![c] = "subscribed"]
    /\ joinedAt' = [joinedAt EXCEPT ![c] = Len(detections)]
    /\ UNCHANGED <<producerVars, storeVars, mounted, inbox, received,
                   mapDetections, loads, stale>>

\* effect cleanup: supabase.removeChannel(channel); the component's state
\* and its pending continuations die with it
UnmountMap(c) ==
    /\ mounted[c]
    /\ mounted' = [mounted EXCEPT ![c] = FALSE]
    /\ chan' = [chan EXCEPT ![c] = "closed"]
    /\ inbox' = [inbox EXCEPT ![c] = <<>>]
    /\ received' = [received EXCEPT ![c] = <<>>]
    /\ joinedAt' = [joinedAt EXCEPT ![c] = 0]
    /\ mapDetections' = [mapDetections EXCEPT ![c] = <<>>]
    /\ loads' = [loads EXCEPT ![c] = <<>>]
    /\ stale' = [stale EXCEPT ![c] = 0]

\* variant: the cleanup does not remove the channel
UnmountKeepChannel(c) ==
    /\ mounted[c]
    /\ mounted' = [mounted EXCEPT ![c] = FALSE]
    /\ mapDetections' = [mapDetections EXCEPT ![c] = <<>>]
    /\ loads' = [loads EXCEPT ![c] = <<>>]
    /\ stale' = [stale EXCEPT ![c] = 0]
    /\ UNCHANGED <<producerVars, storeVars, chan, inbox, received, joinedAt>>

\* variant: the cleanup also empties the queue of every other channel
UnmountFlushAll(c) ==
    /\ mounted[c]
    /\ mounted' = [mounted EXCEPT ![c] = FALSE]
    /\ chan' = [chan EXCEPT ![c] = "closed"]
    /\ inbox' = [d \in Consumers |-> <<>>]
    /\ received' = [received EXCEPT ![c] = <<>>]
    /\ joinedAt' = [joinedAt EXCEPT ![c] = 0]
    /\ mapDetections' = [mapDetections EXCEPT ![c] = <<>>]
    /\ loads' = [loads EXCEPT ![c] = <<>>]
    /\ stale' = [stale EXCEPT ![c] = 0]
    /\ UNCHANGED <<producerVars, storeVars>>

\* the DetectionMap in the browser of consumer c unmounts
Unmount(c) == UnmountMap(c) /\ UNCHANGED <<producerVars, storeVars>>

(***************************************************************************)
(* DetectionStats: the per-type counts of the list the page holds.         *)
(***************************************************************************)
\* variant: acc[key] = 1, the running count is forgotten
CountIntoReset(acc, key) ==
    [counts |-> [k \in DOMAIN acc.counts \cup {key} |->
                    IF k = key THEN 1 ELSE acc.counts[k]],
     keys |-> IF key \in DOMAIN acc.counts THEN acc.keys
              ELSE Append(acc.keys, key)]

\* one step of the reduce: acc[key] = (acc[key] || 0) + 1; `keys` is the
\* insertion order of the object's keys, the order of Object.entries
CountInto(acc, key) ==
    [counts |-> [k \in DOMAIN acc.counts \cup {key} |->
                    IF k # key THEN acc.counts[k]
                    ELSE IF key \in DOMAIN acc.counts THEN acc.counts[key] + 1
                    ELSE 1],
     keys |-> IF key \in DOMAIN acc.counts THEN acc.keys
              ELSE Append(acc.keys, key)]

EmptyCounts == [counts |-> [k \in {} |-> 0], keys |-> <<>>]

\* detections.reduce(..., {}) over the type of each detection
RECURSIVE CountByType(_)
CountByType(dets) ==
    IF dets = <<>> THEN EmptyCounts
    ELSE CountInto(CountByType(SubSeq(dets, 1, Len(dets) - 1)),
                   dets[Len(dets)].type)

\* getTypeStats: one entry per type present, in order of first occurrence;
\* the percentage count / total * 100 is kept as a fraction
GetTypeStats(dets) ==
    LET stats == CountByType(dets)
        total == Len(dets)
    IN  [i \in 1..Len(stats.keys) |->
            [type |-> stats.keys[i],
             count |-> stats.counts[stats.keys[i]],
             percentage |-> IF total > 0
                            THEN [num |-> stats.counts[stats.keys[i]] * 100,
                                  den |-> total]
                            ELSE [num |-> 0, den |-> 1]]]

\* what DetectionStats shows of the types: the entries of getTypeStats and
\* the total, detections.length
RenderTypeStats(dets) == [entries |-> GetTypeStats(dets), total |-> Len(dets)]

\* detections.reduce(..., {}) over the context of each detection
RECURSIVE CountByContext(_)
CountByContext(dets) ==
    IF dets = <<>> THEN EmptyCounts
    ELSE CountInto(CountByContext(SubSeq(dets, 1, Len(dets) - 1)),
                   dets[Len(dets)].context)

\* .sort((a, b) => b.count - a.count): a stable sort, highest count first
RECURSIVE SortByCountDesc(_)
SortByCountDesc(entries) ==
    IF entries = <<>> THEN <<>>
    ELSE LET sorted == SortByCountDesc(SubSeq(entries, 1, Len(entries) - 1))
             e == entries[Len(entries)]
             ahead == Cardinality({i \in 1..Len(sorted) :
                                      sorted[i].count >= e.count})
         IN  SubSeq(sorted, 1, ahead) \o <<e>>
                \o SubSeq(sorted, ahead + 1, Len(sorted))

\* getContextStats: the entries of the counts per context, in order of
\* first occurrence, sorted by count and cut to the first three
GetContextStats(dets) ==
    LET stats == CountByContext(dets)
        entries == [i \in 1..Len(stats.keys) |->
                       [context |-> stats.keys[i],
                        count |-> stats.counts[stats.keys[i]]]]
    IN  Take(SortByCountDesc(entries), 3)

\* detections.sort((a, b) => b.timestamp - a.timestamp) of
\* getRecentDetections: a stable sort, newest first, of the array it is given
RECURSIVE SortNewestFirst(_)
SortNewestFirst(dets) ==
    IF dets = <<>> THEN <<>>
    ELSE LET sorted == SortNewestFirst(SubSeq(dets, 1, Len(dets) - 1))
             d == dets[Len(dets)]
             ahead == Cardinality({i \in 1..Len(sorted) :
                                      sorted[i].timestamp >= d.timestamp})
         IN  SubSeq(sorted, 1, ahead) \o <<d>>
                \o SubSeq(sorted, ahead + 1, Len(sorted))

\* variant: detections.slice(0, 5), without the sort
GetRecentUnsorted(dets) == Take(dets, 5)

\* getRecentDetections: the array sorted in place, then .slice(0, 5)
GetRecentDetections(dets) == Take(SortNewestFirst(dets), 5)

(***************************************************************************)
(* Index and CameraFeed: location lookups, the mock detector and the       *)
(* submission of its detections.                                           *)
(***************************************************************************)
NoLocation == [known |-> FALSE]
\* the default coordinate { lat: 40.7128, lon: -74.0060 }
NYC == [lat |-> NYCLat, lon |-> NYCLon]
\* a position the geolocation provider may report
GeoPositions == {[lat |-> Dec(FALSE, 51, 5074, 4), lon |-> Dec(TRUE, 0, 1278, 4)]}
GeoProviders == {"present", "absent"}

\* types[Math.floor(Math.random() * types.length)]
MockTypes == {"tent", "blanket", "cardboard"}
\* contexts[Math.floor(Math.random() * contexts.length)]
MockContexts == {"street", "park", "subway", "bus", "train"}
\* 0.75 + Math.random() * 0.2, a double of [0.75, 0.95): the least one, one
\* with more digits than the column confidence keeps, the middle one and
\* one near the upper end
MockConfidences ==
    {Dec(FALSE, 0, 75, 2), Dec(FALSE, 0, 7746912, 7), Dec(FALSE, 0, 85, 2),
     Dec(FALSE, 0, 9498, 4)}
\* x of [50, 250), y of [50, 200), width of [50, 150), height of [40, 120):
\* the least box, one inside the ranges and the middle one
MockBoxes ==
    {[x |-> 50, y |-> 50, width |-> 50, height |-> 40],
     [x |-> 70, y |-> 80, width |-> 80, height |-> 72],
     [x |-> 150, y |-> 125, width |-> 100, height |-> 80]}

\* what the detector may make up at a tick: type, context, confidence, bbox
MockDetections ==
    [type : MockTypes, context : MockContexts,
     confidence : MockConfidences, bbox : MockBoxes]

\* (Math.random() - 0.5) * 0.01, a value of [-0.005, 0.005), in thousandths
\* of a degree: the least one, none, and one above
RandomOffsets == {-5, 0, 4}

\* new Date() / Date.now(): the detector's ticks are 2000 ms apart, and
\* between two of them the clock moves in MaxMs steps
TimeScale == MaxMs + 1
Stamp == clientNow * TimeScale + clientMs

\* prev.slice(-n)
\* variant: [...prev, newDetection], without the slice
LastNKeepAll(seq, n) == seq

LastN(seq, n) ==
    IF Len(seq) <= n THEN seq ELSE SubSeq(seq, Len(seq) - n + 1, Len(seq))

\* handleDetection of Index, as the closure that saw `seen` as userLocation:
\* nothing without a location; else setDetections(prev => [...prev,
\* newDetection]) is queued, the detection with a jittered position and a
\* fresh timestamp.  The list and the statistics change at the next render.
HandleDetection(detection, seen, dLat, dLon) ==
    IF seen = NoLocation
    THEN UNCHANGED pageUpdates
    ELSE pageUpdates' =
             Append(pageUpdates,
                    [id |-> detection.id, type |-> detection.type,
                     context |-> detection.context,
                     confidence |-> detection.confidence,
                     bbox |-> detection.bbox,
                     lat |-> [base |-> seen.lat, offset |-> dLat],
                     lon |-> [base |-> seen.lon, offset |-> dLon],
                     timestamp |-> Stamp])

\* the tabs of Index; the content of the selected one alone is mounted
Tabs == {"live", "map", "stats"}
\* DetectionStats is part of the content of "live" and of "stats"
StatsShown(t) == t \in {"live", "stats"}
\* the DetectionMap of this page is the one of this consumer
PageConsumer == 1

\* `list` is rendered as the detections of Index.  Where DetectionStats is
\* on the page it renders with it: the statistics by type and by context
\* are computed, then getRecentDetections sorts the array of the state in
\* place.  Else nothing reads the list.
RenderList(list, shown) ==
    IF shown
    THEN /\ typeStats' = RenderTypeStats(list)
         /\ contextStats' = GetContextStats(list)
         /\ recentDetections' = GetRecentDetections(list)
         /\ pageDetections' = SortNewestFirst(list)
    ELSE /\ pageDetections' = list
         /\ UNCHANGED statsVars

\* Index renders with `list` as its detections while the tab stays
RenderStats(list) == RenderList(list, StatsShown(tab))

\* the effect on [isActive, userLocation] of CameraFeed runs again: the
\* interval before is cleared, and while active a new one is created that
\* holds the saveDetectionToDatabase and the onDetection of this render
\* variant: the effect returns no cleanup, the interval before stays
RecreateIntervalNoCleanup ==
    /\ ticker' = IF isRecording THEN ticker + 1 ELSE ticker
    /\ closureCam' = IF isRecording THEN camLocation ELSE closureCam
    /\ closureLocation' = IF isRecording THEN pageLocation ELSE closureLocation

RecreateInterval ==
    /\ ticker' = IF isRecording THEN 1 ELSE 0
    /\ closureCam' = IF isRecording THEN camLocation ELSE closureCam
    /\ closureLocation' = IF isRecording THEN pageLocation ELSE closureLocation

\* a click is rendered at once: effects left over from the render before
\* run first, then Index and the content of the selected tab render with
\* the state as committed (updates queued by callbacks stay queued)
RenderClick ==
    /\ RenderStats(pageDetections)
    /\ effectDue' = FALSE
    /\ IF effectDue THEN RecreateInterval
       ELSE UNCHANGED <<ticker, closureCam, closureLocation>>
    /\ UNCHANGED <<browserVars, isRecording, geoVars, pageUpdates, camGeoVars,
                   overlayVars, calls, clockVars, lastLog, storeVars,
                   consumerVars>>

\* Index's getCurrentPosition succeeds: setUserLocation is queued
PageGeoSuccess(pos) ==
    /\ pageGeo = "pending"
    /\ pageGeo' = "done"
    /\ pagePending' = pos
    /\ UNCHANGED <<browserVars, isRecording, needsSupabase, pageLocation,
                   listVars, cameraVars, storeVars, consumerVars>>

\* Index's getCurrentPosition fails: the default coordinate is queued
PageGeoError ==
    /\ pageGeo = "pending"
    /\ pageGeo' = "done"
    /\ pagePending' = NYC
    /\ UNCHANGED <<browserVars, isRecording, needsSupabase, pageLocation,
                   listVars, cameraVars, storeVars, consumerVars>>

\* handleToggleRecording, the onToggle of the button of CameraFeed,
\* rendered at once with the effects of CameraFeed on isActive: turned on, getCurrentLocation() runs (a lookup, or
\* setUserLocation of the default coordinate, queued, when the browser has
\* no provider) and the interval is created; turned off, the interval is
\* cleared.  DetectionStats renders again over the list as it is.  Calls in
\* flight and removal timers are left alone.
ToggleRecording ==
    /\ tab = "live"
    /\ isRecording' = ~isRecording
    /\ RenderStats(pageDetections)
    /\ effectDue' = FALSE
    /\ IF isRecording
       THEN /\ ticker' = 0
            /\ closureCam' = IF effectDue THEN camLocation ELSE closureCam
            /\ closureLocation' =
                   IF effectDue THEN pageLocation ELSE closureLocation
            /\ UNCHANGED camGeoVars
       ELSE /\ ticker' = 1
            /\ closureCam' = camLocation
            /\ closureLocation' = pageLocation
            /\ IF geoProvider = "present"
               THEN /\ camGeo < MaxLookups
                    /\ camGeo' = camGeo + 1
                    /\ UNCHANGED <<camLocation, camPending, lastGeo>>
               ELSE /\ camPending' = NYC
                    /\ lastGeo' = "absent"
                    /\ UNCHANGED <<camLocation, camGeo>>
    /\ UNCHANGED <<browserVars, needsSupabase, geoVars, pageUpdates,
                   overlayVars, calls, clockVars, lastLog, storeVars,
                   consumerVars>>

\* handleConnectSupabase: setNeedsSupabase(true), rendered at once
ConnectSupabase ==
    /\ ~needsSupabase
    /\ needsSupabase' = TRUE
    /\ RenderClick

\* the Dismiss button of the notice: setNeedsSupabase(false)
DismissSupabase ==
    /\ needsSupabase
    /\ needsSupabase' = FALSE
    /\ RenderClick

\* CameraFeed unmounts with the content of "live": its cleanups clear the
\* interval, and its state, the updates queued for it and the callbacks of
\* its lookups go with it.  Removal timers and calls of
\* saveDetectionToDatabase in flight are not cancelled.
UnmountCamera ==
    /\ camLocation' = NoLocation
    /\ camPending' = NoLocation
    /\ camGeo' = 0
    /\ lastGeo' = "none"
    /\ ticker' = 0
    /\ effectDue' = FALSE
    /\ closureCam' = NoLocation
    /\ closureLocation' = NoLocation
    /\ overlay' = <<>>

\* CameraFeed mounts with the content of "live", with the props of the
\* last render of Index: it has no location and no overlay; its effects
\* run at once, and while isActive getCurrentLocation() is called and the
\* interval is created by this first render
MountCamera ==
    /\ camLocation' = NoLocation
    /\ overlay' = <<>>
    /\ effectDue' = FALSE
    /\ ticker' = IF isRecording THEN 1 ELSE 0
    /\ closureCam' = NoLocation
    /\ closureLocation' = IF isRecording THEN pageLocation ELSE NoLocation
    /\ IF ~isRecording
       THEN /\ camPending' = NoLocation
            /\ camGeo' = 0
            /\ lastGeo' = "none"
       ELSE IF geoProvider = "present"
       THEN /\ camPending' = NoLocation
            /\ camGeo' = 1
            /\ lastGeo' = "none"
       ELSE /\ camPending' = NYC
            /\ camGeo' = 0
            /\ lastGeo' = "absent"

\* the user selects another tab: Tabs renders at once, the content of the
\* tab before unmounts and the content of t mounts, with the elements of
\* the last render of Index (updates queued by callbacks stay queued)
SelectTab(t) ==
    /\ t \in Tabs \ {tab}
    /\ tab' = t
    /\ IF tab = "live" THEN UnmountCamera
       ELSE IF t = "live" THEN MountCamera
       ELSE UNCHANGED <<camGeoVars, intervalVars, overlay>>
    /\ IF tab = "map" THEN UnmountMap(PageConsumer)
       ELSE IF t = "map" THEN MountMap(PageConsumer)
       ELSE UNCHANGED consumerVars
    /\ RenderList(pageDetections, StatsShown(t))
    /\ UNCHANGED <<geoProvider, isRecording, needsSupabase, geoVars,
                   pageUpdates, timers, calls, clockVars, lastLog, storeVars>>

\* the render React has scheduled for the updates that callbacks queued:
\* CameraFeed takes its new userLocation and its effect on it becomes due;
\* Index takes its new userLocation and the detections appended since, and
\* DetectionStats renders the new list
Render ==
    /\ ~effectDue
    /\ camPending # NoLocation \/ pagePending # NoLocation \/ pageUpdates # <<>>
    /\ camLocation' = IF camPending # NoLocation THEN camPending ELSE camLocation
    /\ camPending' = NoLocation
    /\ effectDue' = (camPending # NoLocation)
    /\ pageLocation' =
           IF pagePending # NoLocation THEN pagePending ELSE pageLocation
    /\ pagePending' = NoLocation
    /\ IF pagePending # NoLocation \/ pageUpdates # <<>>
       THEN /\ RenderStats(pageDetections \o pageUpdates)
            /\ pageUpdates' = <<>>
       ELSE UNCHANGED listVars
    /\ UNCHANGED <<browserVars, isRecording, needsSupabase, pageGeo, camGeo,
                   lastGeo, ticker, closureCam, closureLocation, overlayVars,
                   calls, clockVars, lastLog, storeVars, consumerVars>>

\* the effects of the render run: the interval is replaced
RunEffects ==
    /\ effectDue
    /\ effectDue' = FALSE
    /\ RecreateInterval
    /\ UNCHANGED <<pageVars, camGeoVars, overlayVars, calls, clockVars,
                   lastLog, storeVars, consumerVars>>

\* CameraFeed's getCurrentPosition succeeds: setUserLocation is queued
CamGeoSuccess(pos) ==
    /\ camGeo > 0
    /\ camGeo' = camGeo - 1
    /\ camPending' = pos
    /\ lastGeo' = "success"
    /\ UNCHANGED <<pageVars, camLocation, intervalVars, overlayVars, calls,
                   clockVars, lastLog, storeVars, consumerVars>>

\* CameraFeed's getCurrentPosition fails: the default coordinate is queued
CamGeoError ==
    /\ camGeo > 0
    /\ camGeo' = camGeo - 1
    /\ camPending' = NYC
    /\ lastGeo' = "error"
    /\ UNCHANGED <<pageVars, camLocation, intervalVars, overlayVars, calls,
                   clockVars, lastLog, storeVars, consumerVars>>

\* a call of saveDetectionToDatabase that has sent its insert
SentCall(detection, location, seen) ==
    [detection |-> detection,
     data |-> [lat |-> location.lat, lon |-> location.lon,
               object_type |-> detection.type, context |-> detection.context,
               confidence |-> detection.confidence,
               timestamp |-> clientNow' * TimeScale],
     onDetection |-> seen, phase |-> "sent", error |-> NoError]

\* variant: the tick waits for the submissions before it
TickAwaitingCalls(found, made) ==
    /\ ticker > 0
    /\ calls = {}
    /\ clientNow < MaxTicks
    /\ clientNow' = clientNow + 1
    /\ clientMs' = 0
    /\ IF ~found
       THEN UNCHANGED <<overlay, timers, calls>>
       ELSE LET newDetection ==
                    [id |-> clientNow', type |-> made.type,
                     context |-> made.context, confidence |-> made.confidence,
                     bbox |-> made.bbox]
            IN  /\ overlay' = Append(LastN(overlay, 4), newDetection)
                /\ timers' = timers \cup {newDetection.id}
                /\ calls' = IF closureCam = NoLocation THEN calls
                            ELSE calls \cup {SentCall(newDetection, closureCam,
                                                     closureLocation)}
    /\ UNCHANGED <<pageVars, lastLog, camGeoVars, intervalVars, storeVars,
                   consumerVars>>

\* the setInterval callback of the mock detector, 2000 ms after the one
\* before, while the page's clock is below limit: with Math.random() > 0.7
\* a detection is made up, shown in the overlay (at most the last four
\* before it stay), handed to saveDetectionToDatabase without awaiting it,
\* and its removal is timed.  The saveDetectionToDatabase it calls is the
\* one of the render whose effect created the interval: it returns at once
\* if that render had no location; else it sends the insert of
\* detectionData.
DetectorTick(limit, found, made) ==
    /\ ticker > 0
    /\ clientNow < limit
    /\ clientNow' = clientNow + 1
    /\ clientMs' = 0
    /\ IF ~found
       THEN UNCHANGED <<overlay, timers, calls>>
       ELSE LET newDetection ==
                    [id |-> clientNow', type |-> made.type,
                     context |-> made.context, confidence |-> made.confidence,
                     bbox |-> made.bbox]
            IN  /\ overlay' = Append(LastN(overlay, 4), newDetection)
                /\ timers' = timers \cup {newDetection.id}
                /\ calls' = IF closureCam = NoLocation THEN calls
                            ELSE calls \cup {SentCall(newDetection, closureCam,
                                                     closureLocation)}
    /\ UNCHANGED <<pageVars, lastLog, camGeoVars, intervalVars, storeVars,
                   consumerVars>>

MockDetectionTick(found, made) == DetectorTick(MaxTicks, found, made)

\* the same where one detection is enough
BriefDetectionTick(found, made) == DetectorTick(MaxBriefTicks, found, made)

\* time passes between two ticks of the detector
MsPasses ==
    /\ clientMs < MaxMs
    /\ clientMs' = clientMs + 1
    /\ UNCHANGED <<pageVars, camGeoVars, intervalVars, overlayVars, calls,
                   clientNow, lastLog, storeVars, consumerVars>>

\* variant: the timer fires and its callback leaves the overlay alone
OverlayExpireKeep(id) ==
    /\ id \in timers
    /\ timers' = timers \ {id}
    /\ UNCHANGED <<pageVars, lastLog, camGeoVars, intervalVars, calls,
                   clockVars, overlay, storeVars, consumerVars>>

\* the removal timer of a detection fires:
\* setDetections(prev => prev.filter(d => d.id !== newDetection.id))
OverlayExpire(id) ==
    /\ id \in timers
    /\ timers' = timers \ {id}
    /\ overlay' = SelectSeq(overlay, LAMBDA d : d.id # id)
    /\ UNCHANGED <<pageVars, lastLog, camGeoVars, intervalVars, calls,
                   clockVars, storeVars, consumerVars>>

\* the insert of a call reaches the database
StartInsert(call) ==
    /\ call \in calls
    /\ call.phase = "sent"
    /\ request = NoRequest
    /\ \A other \in calls : other.phase # "running"
    /\ request' = call.data
    /\ calls' = (calls \ {call}) \cup {[call EXCEPT !.phase = "running"]}
    /\ UNCHANGED <<pageVars, lastLog, camGeoVars, intervalVars, overlayVars,
                   clockVars, detections, now, lastError, consumerVars>>

\* the response of the insert a call has sent reaches the page
AnswerInsert(call) ==
    /\ call \in calls
    /\ call.phase = "executed"
    /\ calls' = (calls \ {call}) \cup {[call EXCEPT !.phase = "answered"]}
    /\ UNCHANGED <<pageVars, lastLog, camGeoVars, intervalVars, overlayVars,
                   clockVars, storeVars, consumerVars>>

\* saveDetectionToDatabase resumes after its await: an error is logged;
\* without error onDetection is called with the detection
ResumeSave(call, dLat, dLon) ==
    /\ call \in calls
    /\ call.phase = "answered"
    /\ calls' = calls \ {call}
    /\ IF call.error # NoError
       THEN /\ lastLog' = "Error saving detection:"
            /\ UNCHANGED pageUpdates
       ELSE /\ lastLog' = "New detection:"
            /\ HandleDetection(call.detection, call.onDetection, dLat, dLon)
    /\ UNCHANGED <<browserVars, isRecording, needsSupabase, geoVars,
                   pageDetections, statsVars, camGeoVars, intervalVars,
                   overlayVars, clockVars, storeVars, consumerVars>>

\* the request or its answer is lost and the await throws: logged
SaveThrows(call) ==
    /\ call \in calls
    /\ call.phase \in {"sent", "executed"}
    /\ calls' = calls \ {call}
    /\ lastLog' = "Error saving to database:"
    /\ UNCHANGED <<pageVars, camGeoVars, intervalVars, overlayVars, clockVars,
                   storeVars, consumerVars>>

\* handleDetection of the current render is called with a detection:
\* with a location it queues the detection and logs it
OnDetection(detection, dLat, dLon) ==
    /\ HandleDetection(detection, pageLocation, dLat, dLon)
    /\ lastLog' = IF pageLocation = NoLocation THEN lastLog
                  ELSE "New detection:"
    /\ UNCHANGED <<browserVars, isRecording, needsSupabase, geoVars,
                   pageDetections, statsVars, camGeoVars, intervalVars,
                   overlayVars, calls, clockVars, storeVars, consumerVars>>

(***************************************************************************)
(* Specifications.                                                         *)
(***************************************************************************)
BackendInit ==
    /\ detections = <<>>
    /\ request = NoRequest
    /\ now = 0
    /\ lastError = NoError
    /\ mounted = [c \in Consumers |-> FALSE]
    /\ chan = [c \in Consumers |-> "none"]
    /\ joinedAt = [c \in Consumers |-> 0]
    /\ inbox = [c \in Consumers |-> <<>>]
    /\ received = [c \in Consumers |-> <<>>]
    /\ mapDetections = [c \in Consumers |-> <<>>]
    /\ loads = [c \in Consumers |-> <<>>]
    /\ stale = [c \in Consumers |-> 0]

\* the page has just loaded: Index asks for the position if the browser
\* has a geolocation provider; recording is off, CameraFeed is idle
PageInit(provider) ==
    /\ geoProvider = provider
    /\ tab = "live"
    /\ isRecording = FALSE
    /\ needsSupabase = FALSE
    /\ pageLocation = NoLocation
    /\ pagePending = NoLocation
    /\ pageGeo = IF provider = "present" THEN "pending" ELSE "none"
    /\ pageDetections = <<>>
    /\ pageUpdates = <<>>
    /\ typeStats = RenderTypeStats(<<>>)
    /\ contextStats = GetContextStats(<<>>)
    /\ recentDetections = GetRecentDetections(<<>>)
    /\ camLocation = NoLocation
    /\ camPending = NoLocation
    /\ camGeo = 0
    /\ lastGeo = "none"
    /\ ticker = 0
    /\ effectDue = FALSE
    /\ closureCam = NoLocation
    /\ closureLocation = NoLocation
    /\ overlay = <<>>
    /\ timers = {}
    /\ calls = {}
    /\ clientNow = 0
    /\ clientMs = 0
    /\ lastLog = "none"

Init == BackendInit /\ PageInit("present")

\* a client submits a detection (synchronisation model)
Submit ==
    /\ Len(detections) < MaxStore
    /\ \E d \in SyncCandidates : SaveDetection(d)

\* a client submits a detection (query model)
SubmitForQuery ==
    /\ Len(detections) < MaxQueryStore
    /\ \E d \in QueryCandidates : SaveDetection(d)

\* a client submits any request (ingestion model)
SubmitAny ==
    /\ Len(detections) < MaxIngest
    /\ \E d \in IngestCandidates : SaveDetection(d)

\* the consumers that act in the single-consumer models
SyncConsumers == {1}

Next ==
    \/ Submit
    \/ InsertDetection(FirstUnusedId)
    \/ \E c \in SyncConsumers : Mount(c)
    \/ \E c \in SyncConsumers : Subscribed(c)
    \/ \E c \in SyncConsumers : \E i \in 1..MaxLoads :
          ExecuteQuery(c, i, CatchUpLimit)
    \/ \E c \in SyncConsumers : \E i \in 1..MaxLoads : LoadDetectionsDone(c, i)
    \/ \E c \in SyncConsumers : \E i \in 1..MaxLoads : LoadDetectionsError(c, i)
    \/ \E c \in SyncConsumers : HandleResetView(c)
    \/ \E c \in SyncConsumers : OnInsertPayload(c)
    \/ \E c \in SyncConsumers : Unmount(c)

Spec == Init /\ [][Next]_vars

\* the event loop of a consumer runs the callback of every message it holds
FairSpec == Spec /\ \A c \in SyncConsumers : WF_vars(OnInsertPayload(c))

\* activation alone: detections are committed while a DetectionMap mounts,
\* its channel is registered, its catch-up query is answered and applied
\* and its notifications are handled; it stays mounted and connected
NextActivation ==
    \/ Submit
    \/ InsertDetection(FirstUnusedId)
    \/ \E c \in SyncConsumers : Mount(c)
    \/ \E c \in SyncConsumers : Subscribed(c)
    \/ \E c \in SyncConsumers : \E i \in 1..MaxLoads :
          ExecuteQuery(c, i, CatchUpLimit)
    \/ \E c \in SyncConsumers : \E i \in 1..MaxLoads : LoadDetectionsDone(c, i)
    \/ \E c \in SyncConsumers : OnInsertPayload(c)

SpecActivation == Init /\ [][NextActivation]_vars

\* refreshes that overlap: the Reset View button is pressed while earlier
\* loadDetections calls are in flight, and the responses come in any order
NextRefresh ==
    \/ Submit
    \/ InsertDetection(FirstUnusedId)
    \/ \E c \in SyncConsumers : Mount(c)
    \/ \E c \in SyncConsumers : Subscribed(c)
    \/ \E c \in SyncConsumers : LoadAgain(c, MaxRefreshLoads)
    \/ \E c \in SyncConsumers : \E i \in 1..MaxRefreshLoads :
          ExecuteQuery(c, i, CatchUpLimit)
    \/ \E c \in SyncConsumers : \E i \in 1..MaxRefreshLoads :
          LoadDetectionsDone(c, i)
    \/ \E c \in SyncConsumers : \E i \in 1..MaxRefreshLoads :
          LoadDetectionsError(c, i)
    \/ \E c \in SyncConsumers : OnInsertPayload(c)

SpecRefresh == Init /\ [][NextRefresh]_vars

\* the join is registered, the query is answered, and the event loop runs
\* the continuation of loadDetections and the callback of every message
FairSpecActivation ==
    /\ SpecActivation
    /\ \A c \in SyncConsumers :
          /\ WF_vars(Subscribed(c))
          /\ WF_vars(OnInsertPayload(c))
          /\ \A i \in 1..MaxLoads :
                /\ WF_vars(ExecuteQuery(c, i, CatchUpLimit))
                /\ WF_vars(LoadDetectionsDone(c, i))

\* the synchronisation model with a socket that may drop and come back
NextReconnect ==
    \/ Next
    \/ \E c \in SyncConsumers : Disconnect(c)
    \/ \E c \in SyncConsumers : Rejoined(c)

SpecReconnect == Init /\ [][NextReconnect]_vars

\* ingestion alone: arbitrary requests against the table
NextIngest ==
    \/ SubmitAny
    \/ InsertDetection(FirstUnusedId)
    \/ \E k \in 1..MaxIngest : DeleteDetection(k)
    \/ \E k \in 1..MaxIngest : UpdateDetection(k)

SpecIngest == Init /\ [][NextIngest]_vars

\* the catch-up query alone: inserts, the database clock and loadDetections
NextQuery ==
    \/ SubmitForQuery
    \/ InsertDetection(AnyUnusedId)
    \/ Tick
    \/ \E c \in SyncConsumers : Mount(c)
    \/ \E c \in SyncConsumers : \E i \in 1..MaxLoads :
          ExecuteQuery(c, i, QueryLimit)

SpecQuery == Init /\ [][NextQuery]_vars

\* a client submits a detection (two-consumer model)
SubmitFanout ==
    /\ Len(detections) < MaxFanoutStore
    /\ \E d \in SyncCandidates : SaveDetection(d)

\* two consumers, each in its own browser, come and go while rows are
\* committed; the catch-up queries they send are left unanswered
NextFanout ==
    \/ SubmitFanout
    \/ InsertDetection(FirstUnusedId)
    \/ \E c \in Consumers : Mount(c)
    \/ \E c \in Consumers : Subscribed(c)
    \/ \E c \in Consumers : OnInsertPayload(c)
    \/ \E c \in Consumers : Unmount(c)

SpecFanout == Init /\ [][NextFanout]_vars

\* the page loads in a browser with or without a geolocation provider
InitProducer == BackendInit /\ \E provider \in GeoProviders : PageInit(provider)

\* the API answers an insert with an error without running it (the
\* database cannot be reached)
InsertUnavailable ==
    /\ request # NoRequest
    /\ request' = NoRequest
    /\ lastError' = [code |-> "503", field |-> "none"]
    /\ Respond([code |-> "503", field |-> "none"])
    /\ UNCHANGED <<besideCalls, detections, now, consumerVars>>

\* two of the detections the detector may make up, which differ in every
\* field; the confidence of the second has more digits than the column
\* keeps
TickSample ==
    {d \in MockDetections :
        \/ /\ d.type = "tent"
           /\ d.context = "street"
           /\ d.confidence = Dec(FALSE, 0, 75, 2)
           /\ d.bbox.x = 50
        \/ /\ d.type = "cardboard"
           /\ d.context = "train"
           /\ d.confidence = Dec(FALSE, 0, 7746912, 7)
           /\ d.bbox.x = 70}

\* two of the pairs of offsets handleDetection may draw for lat and lon
JitterSample == {<<-5, -5>>, <<0, 4>>}

\* the k-th of a run of detections the detector may make up, in which the
\* types, the contexts, the confidences and the boxes take turns
ArrivalSample(k) ==
    [type |-> <<"tent", "blanket", "cardboard">>[(k % 3) + 1],
     context |-> <<"street", "park", "subway", "bus", "train">>[(k % 5) + 1],
     confidence |-> <<Dec(FALSE, 0, 75, 2), Dec(FALSE, 0, 7746912, 7),
                      Dec(FALSE, 0, 85, 2), Dec(FALSE, 0, 9498, 4)>>[(k % 4) + 1],
     bbox |-> <<[x |-> 50, y |-> 50, width |-> 50, height |-> 40],
                [x |-> 70, y |-> 80, width |-> 80, height |-> 72],
                [x |-> 150, y |-> 125, width |-> 100, height |-> 80]>>[(k % 3) + 1]]

\* the producer: the page, its tabs and clicks, its renders and its
\* location lookups, the mock detector and the insert of its detection;
\* the removal timer of the overlay stays pending and the DetectionMap of
\* the tab "map" waits for its join and its catch-up
NextProducer ==
    \/ \E pos \in GeoPositions : PageGeoSuccess(pos)
    \/ PageGeoError
    \/ \E t \in Tabs : SelectTab(t)
    \/ ToggleRecording
    \/ ConnectSupabase
    \/ DismissSupabase
    \/ \E pos \in GeoPositions : CamGeoSuccess(pos)
    \/ CamGeoError
    \/ Render
    \/ RunEffects
    \/ MsPasses
    \/ \E found \in BOOLEAN : \E made \in TickSample :
          BriefDetectionTick(found, made)
    \/ \E call \in calls : StartInsert(call)
    \/ InsertDetection(FirstUnusedId)
    \/ InsertUnavailable
    \/ \E call \in calls : AnswerInsert(call)
    \/ \E call \in calls : \E jitter \in JitterSample :
          ResumeSave(call, jitter[1], jitter[2])
    \/ \E call \in calls : SaveThrows(call)

SpecProducer == InitProducer /\ [][NextProducer]_vars

\* the camera while the page has no location of its own yet: recording is
\* switched on and off, the page renders at a click, the camera's lookups
\* end, the detector ticks and the inserts are run or lost
NextCamera ==
    \/ ToggleRecording
    \/ ConnectSupabase
    \/ DismissSupabase
    \/ \E pos \in GeoPositions : CamGeoSuccess(pos)
    \/ CamGeoError
    \/ Render
    \/ RunEffects
    \/ \E found \in BOOLEAN : \E made \in TickSample :
          BriefDetectionTick(found, made)
    \/ \E call \in calls : StartInsert(call)
    \/ InsertDetection(FirstUnusedId)
    \/ \E call \in calls : AnswerInsert(call)
    \/ \E call \in calls : \E jitter \in JitterSample :
          ResumeSave(call, jitter[1], jitter[2])
    \/ \E call \in calls : SaveThrows(call)

SpecCamera == InitProducer /\ [][NextCamera]_vars

\* the detector and its submissions: recording is switched on and off, the
\* camera's lookup fails, the detector ticks, and the inserts are run,
\* refused or lost at any pace
NextTicker ==
    \/ ToggleRecording
    \/ CamGeoError
    \/ Render
    \/ RunEffects
    \/ \E found \in BOOLEAN : \E made \in TickSample :
          MockDetectionTick(found, made)
    \/ \E call \in calls : StartInsert(call)
    \/ InsertDetection(FirstUnusedId)
    \/ InsertUnavailable
    \/ \E call \in calls : AnswerInsert(call)
    \/ \E call \in calls : \E jitter \in JitterSample :
          ResumeSave(call, jitter[1], jitter[2])
    \/ \E call \in calls : SaveThrows(call)

SpecTicker == Init /\ [][NextTicker]_vars

\* every detection the detector may make up is made up once and listed
\* with every offset: the page and the camera have their locations, the
\* detector ticks, the insert is run and answered, and time passes
NextCandidate ==
    \/ \E pos \in GeoPositions : PageGeoSuccess(pos)
    \/ ToggleRecording
    \/ CamGeoError
    \/ Render
    \/ RunEffects
    \/ MsPasses
    \/ \E made \in MockDetections : BriefDetectionTick(TRUE, made)
    \/ \E call \in calls : StartInsert(call)
    \/ InsertDetection(FirstUnusedId)
    \/ \E call \in calls : AnswerInsert(call)
    \/ \E call \in calls : \E dLat, dLon \in RandomOffsets :
          ResumeSave(call, dLat, dLon)

SpecCandidate == Init /\ [][NextCandidate]_vars

\* another client submits a detection while the table has room for it
\* and for the rows this page may still insert
SubmitElsewhere ==
    /\ Len(detections) + Cardinality(calls) + (MaxBriefTicks - clientNow) < MaxStore
    /\ \E d \in SyncCandidates : SaveDetection(d)

\* one page: on the tab "live" it records and submits, other clients
\* submit too, and on the tab "map" its DetectionMap is mounted, catches up
\* and listens
NextSession ==
    \/ SubmitElsewhere
    \/ InsertDetection(FirstUnusedId)
    \/ PageGeoError
    \/ \E t \in Tabs : SelectTab(t)
    \/ ToggleRecording
    \/ CamGeoError
    \/ Render
    \/ RunEffects
    \/ MsPasses
    \/ \E found \in BOOLEAN :
          BriefDetectionTick(found, ArrivalSample(clientNow + 1))
    \/ \E call \in calls : StartInsert(call)
    \/ \E call \in calls : AnswerInsert(call)
    \/ \E call \in calls : \E jitter \in JitterSample :
          ResumeSave(call, jitter[1], jitter[2])
    \/ Subscribed(PageConsumer)
    \/ \E i \in 1..MaxLoads : ExecuteQuery(PageConsumer, i, CatchUpLimit)
    \/ \E i \in 1..MaxLoads : LoadDetectionsDone(PageConsumer, i)
    \/ OnInsertPayload(PageConsumer)

SpecSession == Init /\ [][NextSession]_vars

\* the jitter handleDetection adds when the statistics are watched: they
\* do not read the position
StatsOffsets == {0}

\* detections of every type, as the mock detector makes them up, in one
\* context and with one confidence and box
StatsDetections ==
    {d \in MockDetections :
        /\ d.context = "street"
        /\ d.confidence = Dec(FALSE, 0, 75, 2)
        /\ d.bbox.x = 70}

\* handleDetection of the current render is called with a detection the
\* detector made up, numbered in the order of arrival, while the page
\* holds fewer than limit
Arrives(limit, made, dLat, dLon) ==
    /\ Len(pageDetections) + Len(pageUpdates) < limit
    /\ OnDetection([id |-> Len(pageDetections) + Len(pageUpdates) + 1,
                    type |-> made.type, context |-> made.context,
                    confidence |-> made.confidence, bbox |-> made.bbox],
                   dLat, dLon)

\* the page holds a detection of the present time, or its clock is where
\* it started
ArrivedNow ==
    \/ clientNow = 0
    \/ \E k \in 1..Len(pageDetections \o pageUpdates) :
          (pageDetections \o pageUpdates)[k].timestamp = Stamp

\* the page's clock moves on by the period of the detector, while it is
\* below limit
TimePasses(limit) ==
    /\ clientNow < limit
    /\ clientNow' = clientNow + 1
    /\ UNCHANGED <<pageVars, camGeoVars, intervalVars, overlayVars, calls,
                   clientMs, lastLog, storeVars, consumerVars>>

\* the known set of the example: ten events as the detector makes them
\* up, the types in turn, four tents, three blankets and three cardboards,
\* in the context, with the confidence and the box of StatsDetections
KnownEvents ==
    [k \in 1..10 |->
        CHOOSE d \in StatsDetections :
            d.type = <<"tent", "blanket", "cardboard">>[((k - 1) % 3) + 1]]

\* the detections that have reached the page, rendered or not
Held == pageDetections \o pageUpdates

\* the detections that have reached the page are the first of the known
\* set, and the next of the set is still to come
KnownSoFar ==
    /\ Len(Held) < Len(KnownEvents)
    /\ \A k \in 1..Len(Held) :
          /\ Held[k].type = KnownEvents[Held[k].id].type
          /\ Held[k].context = KnownEvents[Held[k].id].context
          /\ Held[k].confidence = KnownEvents[Held[k].id].confidence
          /\ Held[k].bbox = KnownEvents[Held[k].id].bbox

\* the statistics: detections reach the page one by one, each at the time
\* of the one before, in the same millisecond, or after it, while the clock
\* has not passed MaxTicks periods: up to MaxShown of any type, or the ten
\* of the known set one after the other; React renders what has arrived,
\* and the page renders again at each click on Start/Stop Recording, Setup
\* Backend and Dismiss
NextStats ==
    \/ PageGeoError
    \/ Render
    \/ ToggleRecording
    \/ ConnectSupabase
    \/ DismissSupabase
    \/ ArrivedNow /\ TimePasses(MaxTicks)
    \/ \E made \in StatsDetections : \E dLat, dLon \in StatsOffsets :
          Arrives(MaxShown, made, dLat, dLon)
    \/ /\ KnownSoFar
       /\ \E dLat, dLon \in StatsOffsets :
             Arrives(Len(KnownEvents), KnownEvents[Len(Held) + 1], dLat, dLon)

SpecStats == Init /\ [][NextStats]_vars

\* detections of one type in every context but one, enough for a fourth
\* context to compete for three places
ContextDetections ==
    {d \in MockDetections :
        /\ d.type = "tent"
        /\ d.context # "train"
        /\ d.confidence = Dec(FALSE, 0, 75, 2)
        /\ d.bbox.x = 70}

\* the ranking of contexts: detections in any context reach the page in
\* any order, a period of the detector or less apart, React renders what
\* has arrived, and the page renders again at each click on Start/Stop
\* Recording, Setup Backend and Dismiss
NextContexts ==
    \/ PageGeoError
    \/ Render
    \/ ToggleRecording
    \/ ConnectSupabase
    \/ DismissSupabase
    \/ ArrivedNow /\ TimePasses(MaxContextEvents)
    \/ \E made \in ContextDetections : \E dLat, dLon \in StatsOffsets :
          Arrives(MaxContextEvents, made, dLat, dLon)

SpecContexts == Init /\ [][NextContexts]_vars

\* the recent activity: detections reach the page one by one as time
\* passes, and the page renders again at a click
NextRecent ==
    \/ PageGeoError
    \/ Render
    \/ ArrivedNow /\ TimePasses(MaxRecentEvents)
    \/ ConnectSupabase
    \/ DismissSupabase
    \/ \E dLat, dLon \in StatsOffsets :
          Arrives(MaxRecentEvents,
                  ArrivalSample(Len(pageDetections) + Len(pageUpdates)),
                  dLat, dLon)

SpecRecent == Init /\ [][NextRecent]_vars

\* the overlay of the camera: recording is switched on and off, the
\* detector ticks, and the removal timers fire at any time after they were
\* set (the camera has no location yet, so nothing is submitted)
NextOverlay ==
    \/ ToggleRecording
    \/ \E found \in BOOLEAN : \E made \in TickSample :
          DetectorTick(MaxOverlayTicks, found, made)
    \/ \E id \in timers : OverlayExpire(id)

SpecOverlay == Init /\ [][NextOverlay]_vars

\* the camera with its submissions and its removal timers: recording is
\* switched on and off, the camera's location lookup fails, the detector
\* ticks, the inserts succeed, are refused or are lost, and the timers fire
NextExpiry ==
    \/ ToggleRecording
    \/ CamGeoError
    \/ Render
    \/ RunEffects
    \/ \E found \in BOOLEAN : \E made \in TickSample :
          BriefDetectionTick(found, made)
    \/ \E id \in timers : OverlayExpire(id)
    \/ \E call \in calls : StartInsert(call)
    \/ InsertDetection(FirstUnusedId)
    \/ InsertUnavailable
    \/ \E call \in calls : AnswerInsert(call)
    \/ \E call \in calls : \E jitter \in JitterSample :
          ResumeSave(call, jitter[1], jitter[2])
    \/ \E call \in calls : SaveThrows(call)

SpecExpiry == Init /\ [][NextExpiry]_vars

\* the ids the detector can give, Date.now() at a tick
TimerIds == 1..MaxBriefTicks

\* a timer that was set fires: the event loop runs every setTimeout callback
FairSpecExpiry ==
    SpecExpiry /\ \A id \in TimerIds : WF_vars(OverlayExpire(id))

(***************************************************************************)
(* Properties of ingestion (SpecIngest).                                   *)
(***************************************************************************)
\* lo <= v <= hi for a decimal v and integers lo <= 0 <= hi
InRange(v, lo, hi) ==
    LET zero == v.int = 0 /\ v.frac = 0
    IN  IF v.neg /\ ~zero
        THEN v.int < -lo \/ (v.int = -lo /\ v.frac = 0)
        ELSE v.int < hi \/ (v.int = hi /\ v.frac = 0)

TypeValid(d) == d.object_type \in {"tent", "blanket", "cardboard"}
ContextValid(d) ==
    d.context \in {"street", "park", "subway", "bus", "train", "unknown"}
ConfidenceValid(d) == InRange(d.confidence, 0, 1)
CoordinatesValid(d) == InRange(d.lat, -90, 90) /\ InRange(d.lon, -180, 180)

\* C1: every committed detection has confidence in [0,1], object_type in
\* {tent, blanket, cardboard} and context in {street, park, subway, bus,
\* train, unknown}, after any sequence of valid and invalid submits.
C1_CommittedInRange ==
    \A i \in 1..Len(detections) :
        /\ TypeValid(detections[i])
        /\ ContextValid(detections[i])
        /\ ConfidenceValid(detections[i])

\* a row is committed, and the last submit was turned down by a CHECK
C1_Witness ==
    /\ Len(detections) >= 1
    /\ lastError.code = "23514"

\* C3: a submit whose confidence is outside [0,1] and whose other fields
\* are valid is rejected with an error that names confidence, and leaves
\* the stored events as they were.
C3_ConfidenceRejected ==
    [][(InsertDetection(FirstUnusedId) /\ ~ConfidenceValid(request) /\ TypeValid(request)
           /\ ContextValid(request) /\ CoordinatesValid(request))
       => (lastError'.field = "confidence" /\ detections' = detections)]_vars

\* C4: a submit whose object_type or context is outside its enumeration
\* is rejected and the table is unchanged.
C4_EnumRejected ==
    [][(InsertDetection(FirstUnusedId) /\ (~TypeValid(request) \/ ~ContextValid(request)))
       => (lastError' # NoError /\ detections' = detections)]_vars

\* a submit was turned down for its object_type alone, after a commit
C4_Witness ==
    /\ Len(detections) >= 1
    /\ lastError = CheckViolation("object_type")

\* C5: a submit whose latitude is outside [-90,90] or whose longitude is
\* outside [-180,180], all other fields valid, is rejected and commits
\* nothing.
C5_CoordinatesRejected ==
    [][(InsertDetection(FirstUnusedId) /\ ~CoordinatesValid(request) /\ TypeValid(request)
           /\ ContextValid(request) /\ ConfidenceValid(request))
       => (lastError' # NoError /\ detections' = detections)]_vars

\* the field the fixed order object_type, context, confidence, coordinates
\* reports for a candidate
FirstInvalidField(d) ==
    IF ~TypeValid(d) THEN "object_type"
    ELSE IF ~ContextValid(d) THEN "context"
    ELSE IF ~ConfidenceValid(d) THEN "confidence"
    ELSE IF ~CoordinatesValid(d) THEN "coordinates"
    ELSE "none"

FieldReported(err) ==
    IF err.field \in {"lat", "lon"} THEN "coordinates" ELSE err.field

\* C6: a rejected submit reports exactly one failing field, the first
\* failing one in the order object_type, context, confidence, coordinates.
C6_FirstFailingFieldReported ==
    [][InsertDetection(FirstUnusedId)
       => /\ FirstInvalidField(request) # "none"
             => FieldReported(lastError') = FirstInvalidField(request)
          /\ lastError' # NoError => lastError'.field # "none"]_vars

(***************************************************************************)
(* Properties of the consumer (Spec, FairSpec).                            *)
(***************************************************************************)
IdsOf(seq) == {seq[i].id : i \in 1..Len(seq)}
CountOf(seq, id) == Cardinality({i \in 1..Len(seq) : seq[i].id = id})
\* position of a committed row in commit order
CommitIndex(id) == CHOOSE k \in 1..Len(detections) : detections[k].id = id

\* C2: the local view of a consumer holds exactly one entry for each id,
\* whatever the interleaving of catch-up completion and live notifications.
C2_OneEntryPerId ==
    \A c \in Consumers :
        \A i, j \in 1..Len(mapDetections[c]) :
            i # j => mapDetections[c][i].id # mapDetections[c][j].id

\* every event committed since the subscription of c was established is
\* accounted for exactly once: handed to the callback or still in transit
C7_ExactlyOneCopy ==
    \A c \in Consumers :
        chan[c] = "subscribed" =>
            \A k \in (joinedAt[c] + 1)..Len(detections) :
                /\ CountOf(received[c], detections[k].id)
                     + CountOf(inbox[c], detections[k].id) = 1

\* a notification in transit reaches the callback unless the consumer
\* disconnects
C7_Delivered ==
    \A c \in SyncConsumers : \A id \in UUIDs :
        (chan[c] = "subscribed" /\ id \in IdsOf(inbox[c]))
            ~> (id \in IdsOf(received[c]) \/ chan[c] # "subscribed")

\* C7: a subscriber whose subscription is established before E is
\* committed, and that stays connected, receives exactly one live
\* notification for E: never zero, never more than one.
C7_ExactlyOneNotification == []C7_ExactlyOneCopy /\ C7_Delivered

\* a subscribed consumer has received an event committed after it joined
C7_Witness ==
    \E c \in Consumers :
        /\ chan[c] = "subscribed"
        /\ joinedAt[c] < Len(detections)
        /\ inbox[c] = <<>>
        /\ Len(received[c]) = Len(detections) - joinedAt[c]

\* no live notification for an event committed before the subscription
NoReplay ==
    \A c \in Consumers :
        \A id \in IdsOf(received[c]) \cup IdsOf(inbox[c]) :
            CommitIndex(id) > joinedAt[c]

AnsweredLoads(c) ==
    {i \in 1..Len(loads[c]) : loads[c][i].phase = "answered"}

\* C8: no replay, and an event among the N most recently
\* committed when the catch-up query runs is in its result.
C8_NoReplayRecentInCatchUp ==
    /\ NoReplay
    /\ \A c \in Consumers : \A i \in AnsweredLoads(c) :
          \A k \in 1..loads[c][i].at :
              k > loads[c][i].at - CatchUpLimit
                  => detections[k].id \in IdsOf(loads[c][i].data)

(***************************************************************************)
(* Properties of the query (SpecQuery).                                    *)
(***************************************************************************)
Min(a, b) == IF a < b THEN a ELSE b

\* C9: the result lists events in reverse commit order
\* (recorded_at descending), whatever their client-side timestamps.
C9_ReverseCommitOrder ==
    \A c \in Consumers : \A i \in AnsweredLoads(c) :
        LET data == loads[c][i].data
        IN  \A a, b \in 1..Len(data) :
                (a < b /\ data[a].created_at # data[b].created_at)
                    => data[a].created_at > data[b].created_at

\* C10: events of equal recorded_at come back ordered by id, so that the
\* same table contents always give the same sequence.
C10_TiesOrderedById ==
    \A c \in Consumers : \A i \in AnsweredLoads(c) :
        LET data == loads[c][i].data
            tied(a, b) == a < b /\ data[a].created_at = data[b].created_at
        IN  \/ \A a, b \in 1..Len(data) : tied(a, b) => data[a].id < data[b].id
            \/ \A a, b \in 1..Len(data) : tied(a, b) => data[a].id > data[b].id

(***************************************************************************)
(* Properties of the live channel (Spec).                                  *)
(***************************************************************************)
\* C11: for every subscriber and every two events it both receives live,
\* the one the store committed first is handed to its callback first.
C11_LiveInCommitOrder ==
    \A c \in Consumers :
        \A i, j \in 1..Len(received[c]) :
            i < j => CommitIndex(received[c][i].id)
                        < CommitIndex(received[c][j].id)

\* a subscriber has received two events live
C11_Witness ==
    \E c \in Consumers :
        /\ chan[c] = "subscribed"
        /\ Len(received[c]) = 2
        /\ received[c][1].id # received[c][2].id

(***************************************************************************)
(* Properties of the table under client commands (SpecIngest).             *)
(***************************************************************************)
\* C14: the store is append-only: in every step the table is unchanged or
\* gains exactly one row at its end, and no committed row is modified or
\* removed by any command a client can send (insert, update, delete).
C14_AppendOnly ==
    [][\/ detections' = detections
       \/ /\ Len(detections') = Len(detections) + 1
          /\ SubSeq(detections', 1, Len(detections)) = detections]_vars

\* a row is committed (update and delete commands have a row to aim at) and
\* a later insert was refused for a numeric overflow
C14_Witness ==
    /\ Len(detections) >= 1
    /\ request = NoRequest
    /\ lastError = NumericOverflowError

(***************************************************************************)
(* Properties of the ids (SpecQuery, where the database picks any unused   *)
(* value).                                                                 *)
(***************************************************************************)
\* C15: the id of every committed event differs from every other id ever
\* committed, and is assigned by the store at commit time rather than taken
\* from the client's candidate: the request carries no id.
C15_StoreAssignedUniqueIds ==
    /\ \A i, j \in 1..Len(detections) :
          i # j => detections[i].id # detections[j].id
    /\ \A i \in 1..Len(detections) : detections[i].id \in UUIDs
    /\ request # NoRequest => "id" \notin DOMAIN request

\* two rows whose ids are not in commit order, and an insert in flight
C15_Witness ==
    /\ Len(detections) = 2
    /\ detections[1].id > detections[2].id
    /\ request # NoRequest

\* every notification in transit or handed to a callback is a row of the table
C16_FromStore ==
    \A c \in Consumers :
        \A i \in 1..Len(received[c] \o inbox[c]) :
            \E k \in 1..Len(detections) :
                detections[k] = (received[c] \o inbox[c])[i]

\* a step that commits a row enqueues that row once on every subscribed
\* channel; no other step, a refused insert above all, enqueues anything
C16_EmittedOnCommit ==
    [][\A c \in Consumers :
          IF Len(detections') = Len(detections) + 1
          THEN inbox'[c] =
                  IF chan[c] = "subscribed"
                  THEN Append(inbox[c], detections'[Len(detections')])
                  ELSE inbox[c]
          ELSE Len(inbox'[c]) <= Len(inbox[c])]_vars

\* C16: a change notification is emitted exactly once per successful
\* insert and only after the row is in the store; a rejected or failed
\* submit emits none, so every event a subscriber receives is a row
\* present in the store.
C16_NotifiedOncePerCommit == []C16_FromStore /\ C16_EmittedOnCommit

\* a subscriber has received the notification of a commit, and the insert
\* after it was refused and left its queue empty
C16_Witness ==
    \E c \in Consumers :
        /\ chan[c] = "subscribed"
        /\ joinedAt[c] = 0
        /\ Len(received[c]) = 1
        /\ Len(detections) = 1
        /\ inbox[c] = <<>>
        /\ lastError = CheckViolation("object_type")

\* a deactivated consumer has no channel registered and nothing in transit
C17_TornDown ==
    \A c \in Consumers :
        ~mounted[c] =>
            /\ chan[c] \notin {"joining", "subscribed", "rejoining"}
            /\ inbox[c] = <<>>
            /\ loads[c] = <<>>

\* while a consumer stays deactivated, no step, a commit above all,
\* delivers to it or changes its local view
C17_Untouched ==
    [][\A c \in Consumers :
          (~mounted[c] /\ ~mounted'[c]) =>
              /\ inbox'[c] = <<>>
              /\ received'[c] = received[c]
              /\ mapDetections'[c] = mapDetections[c]
              /\ chan'[c] = chan[c]]_vars

\* C17: after a consumer is deactivated its subscription is torn down: it
\* is no longer registered on the channel, and no event committed
\* afterwards is delivered to it or changes its local view.
C17_TornDownWhenInactive == []C17_TornDown /\ C17_Untouched

\* a consumer that had a channel has been deactivated, and the table
\* holds a committed row that its empty view does not show
C17_Witness ==
    \E c \in Consumers :
        /\ ~mounted[c]
        /\ chan[c] = "closed"
        /\ mapDetections[c] = <<>>
        /\ Len(detections) >= 1
        /\ request = NoRequest
        /\ lastError = NoError

(***************************************************************************)
(* Properties of several subscribers (SpecFanout).                         *)
(***************************************************************************)
\* C18: subscribers are isolated: whatever another subscriber does (join,
\* leave, tear down, at any point), a connected subscriber has been handed
\* or holds in transit every event committed since it connected, each
\* once, in commit order.
C18_SubscribersIsolated ==
    \A c \in Consumers :
        chan[c] = "subscribed" =>
            received[c] \o inbox[c]
                = SubSeq(detections, joinedAt[c] + 1, Len(detections))

\* one subscriber has received two events live while the other, which had
\* a channel, has torn it down
C18_Witness ==
    \E c, other \in Consumers :
        /\ c # other
        /\ chan[c] = "subscribed"
        /\ Len(received[c]) = 2
        /\ chan[other] = "closed"

(***************************************************************************)
(* Backpressure (Spec).                                                    *)
(***************************************************************************)
\* C12: the queue of undelivered notifications of a subscriber is bounded;
\* a publish that finds it full drops the oldest buffered notification
\* and enqueues the new one (the publisher is not blocked, the subscriber
\* goes on receiving), so the queue never exceeds its capacity.
C12_BoundedDropOldest ==
    /\ [](\A c \in Consumers : Len(inbox[c]) <= QueueCapacity)
    /\ [][\A c \in Consumers :
             (/\ Len(detections') = Len(detections) + 1
              /\ chan[c] = "subscribed"
              /\ Len(inbox[c]) = QueueCapacity)
                 => inbox'[c] = Append(Tail(inbox[c]),
                                       detections'[Len(detections')])]_vars

(***************************************************************************)
(* Properties of the producer (SpecTicker, SpecCamera).                    *)
(***************************************************************************)
\* the detector made up a detection in this step
TickMade == clientNow' = clientNow + 1 /\ timers' # timers

\* the calls of saveDetectionToDatabase sent in this step
NewCalls == {call \in calls' : call.detection.id = clientNow' /\ call.phase = "sent"}

\* while the interval exists the next tick can fire and make up a
\* detection, whatever the state of the calls before it
C19_TickEnabled ==
    (ticker > 0 /\ clientNow < MaxTicks)
        => \A made \in MockDetections : ENABLED MockDetectionTick(TRUE, made)

\* a tick that makes up a detection, with the location known to the
\* interval, sends its insert and leaves the calls before it as they are
C19_TickSubmits ==
    [][(TickMade /\ closureCam # NoLocation)
          => /\ Cardinality(NewCalls) = 1
             /\ calls' = calls \cup NewCalls]_vars

\* C19: the ticker makes up its next candidate at every tick while
\* recording, whether or not earlier submissions have completed: a
\* submission that is slow, never answers or fails does not delay or
\* prevent a later tick or a later submission.
C19_TickerNeverWaits == []C19_TickEnabled /\ C19_TickSubmits

\* the first submission is still unanswered while the second, sent at the
\* next tick, has already been answered with an error
C19_Witness ==
    \E a, b \in calls :
        /\ a.detection.id < b.detection.id
        /\ a.phase = "sent"
        /\ b.phase = "answered"
        /\ b.error # NoError

\* after a lookup that failed, or without a provider, CameraFeed holds the
\* default coordinate, queued for its next render or rendered
C20_DefaultCoordinate ==
    lastGeo \in {"error", "absent"}
        => \/ camPending = NYC
           \/ camPending = NoLocation /\ camLocation = NYC

\* an insert sent with the default coordinate is one the table accepts
C20_DefaultAccepted ==
    \A call \in calls :
        (call.data.lat = NYCLat /\ call.data.lon = NYCLon)
            => InsertError(call.data) = NoError

\* a detection made up after a lookup that failed, or without a provider,
\* is submitted, and with the default coordinate
C20_SubmittedWithDefault ==
    [][(TickMade /\ lastGeo \in {"error", "absent"})
          => /\ Cardinality(NewCalls) = 1
             /\ \A call \in NewCalls :
                   call.data.lat = NYCLat /\ call.data.lon = NYCLon]_vars

\* C20: when the geolocation provider is absent or reports an error, the
\* producer falls back to (40.7128, -74.0060) and submissions are made
\* with it; the location being unavailable never makes a submission fail.
C20_LocationFallback ==
    /\ [](C20_DefaultCoordinate /\ C20_DefaultAccepted)
    /\ C20_SubmittedWithDefault

(***************************************************************************)
(* Properties of the statistics (SpecStats).                               *)
(***************************************************************************)
\* the counts of the first n entries, added up
RECURSIVE SumOfFirst(_, _)
SumOfFirst(entries, n) ==
    IF n = 0 THEN 0 ELSE entries[n].count + SumOfFirst(entries, n - 1)

SumOfCounts(entries) == SumOfFirst(entries, Len(entries))

\* the detections of a type in the list the page holds
OfType(t) == {i \in 1..Len(pageDetections) : pageDetections[i].type = t}

\* C13: the count shown for each object_type equals the number of events
\* of that type in the set, the total equals the size of the set, and the
\* per-type counts sum to the total (10 events, 4 tent, 3 blanket and 3
\* cardboard, give counts 4, 3, 3 and total 10).
C13_TypeCounts ==
    LET entries == typeStats.entries
    IN  /\ typeStats.total = Len(pageDetections)
        /\ SumOfCounts(entries) = typeStats.total
        /\ \A i, j \in 1..Len(entries) :
              i # j => entries[i].type # entries[j].type
        /\ \A i \in 1..Len(entries) :
              entries[i].count = Cardinality(OfType(entries[i].type))
        /\ \A t \in ObjectTypes :
              OfType(t) # {} => \E i \in 1..Len(entries) : entries[i].type = t

\* the ten events of the known set, some of them stamped in the same
\* millisecond and some a period apart, are rendered and shown with counts
\* 4, 3, 3 and total 10, the first to arrive alone at its time and last in
\* the list, two of one time in their order of arrival, on a page where
\* Setup Backend and Start Recording have been clicked
C13_Witness ==
    /\ Len(pageDetections) = 10
    /\ pageUpdates = <<>>
    /\ needsSupabase
    /\ isRecording
    /\ pageDetections[10].id = 1
    /\ \E m, n \in 1..10 :
          /\ m < n
          /\ pageDetections[m].id < pageDetections[n].id
          /\ pageDetections[m].timestamp = pageDetections[n].timestamp
    /\ Cardinality({pageDetections[n].timestamp : n \in 1..10}) = MaxTicks + 1
    /\ typeStats.total = 10
    /\ \E i, j, k \in 1..Len(typeStats.entries) :
          /\ typeStats.entries[i].type = "tent"
          /\ typeStats.entries[i].count = 4
          /\ typeStats.entries[j].type = "blanket"
          /\ typeStats.entries[j].count = 3
          /\ typeStats.entries[k].type = "cardboard"
          /\ typeStats.entries[k].count = 3

\* the rows committed for the detection of a call: its observation time is
\* the tick that made it up
RowsOf(call) ==
    {k \in 1..Len(detections') : detections'[k].timestamp = call.data.timestamp}

\* saveDetectionToDatabase ends in one of its two error branches in this step
SaveFails(call) ==
    \/ SaveThrows(call)
    \/ /\ call.error # NoError
       /\ call.phase = "answered"
       /\ calls' = calls \ {call}
       /\ lastLog' = "Error saving detection:"

\* C21: when an insert fails (the store returns an error or the call
\* throws), no record for that detection exists in the store, the
\* detection is not added to the list of the page (onDetection is not
\* called), and no second insert is attempted for it.
C21_FailedInsertLeavesNothing ==
    [][\A call \in calls :
          SaveFails(call)
              => /\ RowsOf(call) = {}
                 /\ pageUpdates' = pageUpdates
                 /\ request' = request
                 /\ \A other \in calls' :
                       other.detection.id # call.detection.id]_vars

(***************************************************************************)
(* Properties of a dropped live feed (SpecReconnect).                      *)
(***************************************************************************)
\* C22: whenever the live feed of a consumer disconnects and later
\* reconnects, the consumer issues a fresh catch-up query on reconnecting
\* (so that events committed during the disconnection and within the
\* window end up in its local view).
C22_CatchUpOnReconnect ==
    [][\A c \in Consumers :
          (chan[c] = "rejoining" /\ chan'[c] = "subscribed")
              => /\ Len(loads'[c]) = Len(loads[c]) + 1
                 /\ loads'[c][Len(loads'[c])] = SentLoad]_vars

(***************************************************************************)
(* Properties of activation (Spec).                                        *)
(***************************************************************************)
\* mounting issues one catch-up query and sends the join of the channel
C23_OneQueryThenSubscribe ==
    [][\A c \in Consumers :
          (~mounted[c] /\ mounted'[c])
              => loads'[c] = <<SentLoad>> /\ chan'[c] = "joining"]_vars

\* the result of a catch-up query is the last N rows committed when it
\* ran, the last committed first (commit order refines recorded_at)
C23_LastCommitted ==
    \A c \in Consumers : \A i \in AnsweredLoads(c) :
        LET data == loads[c][i].data
            at == loads[c][i].at
        IN  /\ Len(data) = Min(at, CatchUpLimit)
            /\ \A a \in 1..Len(data) : data[a] = detections[at - a + 1]

\* C23: on activation the synchronizer issues exactly one
\* catch-up query and then subscribes; the result holds at most N events
\* and is exactly the N most recently recorded events in the store at
\* query time (all of them if fewer), newest first.
C23_CatchUpMostRecentlyRecorded ==
    []C23_LastCommitted /\ C23_OneQueryThenSubscribe

(***************************************************************************)
(* Properties of the page as a whole (SpecSession, SpecRecent).            *)
(***************************************************************************)
\* C24: the statistics are computed over the local view of the
\* synchronizer (catch-up result plus live merges): in every state the
\* total the statistics report equals the number of events in that view.
C24_StatsOverLocalView ==
    \A c \in SyncConsumers :
        mounted[c] => typeStats.total = Len(mapDetections[c])

\* C25: computing the statistics is pure: the list the page hands to the
\* statistics has the same content and order after the computation (a
\* render leaves the list as the page gave it, the events it held followed
\* by the new ones), and computing the statistics again over the same list
\* gives the same result (a render that takes no new event shows what the
\* render before it showed).
C25_StatisticsLeaveListAlone ==
    [][/\ pageDetections' # pageDetections
             => pageDetections' = pageDetections \o pageUpdates
       /\ pageUpdates' = pageUpdates => statsVars' = statsVars]_vars

(***************************************************************************)
(* Properties of the ranking of contexts (SpecContexts).                   *)
(***************************************************************************)
ContextsIn(list) == {list[k].context : k \in 1..Len(list)}

CountIn(list, ctx) ==
    Cardinality({k \in 1..Len(list) : list[k].context = ctx})

FirstIn(list, ctx) ==
    CHOOSE k \in 1..Len(list) :
        /\ list[k].context = ctx
        /\ \A j \in 1..(k - 1) : list[j].context # ctx

RankedIn(ranking) == {ranking[i].context : i \in 1..Len(ranking)}

\* `ranking` is the top three of the contexts of `list`
TopThree(ranking, list) ==
    /\ Len(ranking) = Min(3, Cardinality(ContextsIn(list)))
    /\ RankedIn(ranking) \subseteq ContextsIn(list)
    /\ Cardinality(RankedIn(ranking)) = Len(ranking)
    /\ \A i \in 1..Len(ranking) :
          ranking[i].count = CountIn(list, ranking[i].context)
    /\ \A i, j \in 1..Len(ranking) :
          i < j => /\ ranking[i].count >= ranking[j].count
                   /\ ranking[i].count = ranking[j].count
                         => FirstIn(list, ranking[i].context)
                               < FirstIn(list, ranking[j].context)
    /\ \A out \in ContextsIn(list) \ RankedIn(ranking) :
          \A i \in 1..Len(ranking) :
              /\ CountIn(list, out) <= ranking[i].count
              /\ CountIn(list, out) = ranking[i].count
                    => FirstIn(list, ranking[i].context) < FirstIn(list, out)

\* the events of a list in the order in which they reached the page
\* (handleDetection is handed them numbered in that order)
InOrderOfArrival(list) ==
    [k \in 1..Len(list) |-> list[CHOOSE n \in 1..Len(list) : list[n].id = k]]

\* C26: the ranking shown for the events of the page holds at most three
\* contexts, those that occur, each once and with its exact count, in
\* non-increasing order of count; no context left out has a higher count
\* than one that is in; contexts of equal count stand, and are cut, in the
\* order in which their labels first appear in the list of events, that
\* is, in which they were first seen.
C26_TopThreeContexts == TopThree(contextStats, InOrderOfArrival(pageDetections))

(***************************************************************************)
(* Properties of the recent activity (SpecRecent).                         *)
(***************************************************************************)
RecentIds == {recentDetections[i].id : i \in 1..Len(recentDetections)}

\* C27: the recent activity holds min(5, n) of the n events of the list,
\* each at most once, in descending order of observed_at, and no event
\* left out was observed later than one that is listed.
C27_FiveLatest ==
    /\ Len(recentDetections) = Min(5, Len(pageDetections))
    /\ \A i \in 1..Len(recentDetections) :
          \E k \in 1..Len(pageDetections) :
              pageDetections[k] = recentDetections[i]
    /\ Cardinality(RecentIds) = Len(recentDetections)
    /\ \A i, j \in 1..Len(recentDetections) :
          i < j => recentDetections[i].timestamp
                      >= recentDetections[j].timestamp
    /\ \A k \in 1..Len(pageDetections) :
          pageDetections[k].id \notin RecentIds
             => \A i \in 1..Len(recentDetections) :
                    pageDetections[k].timestamp
                       <= recentDetections[i].timestamp

\* six events at three times: five are listed, the newest first, and the
\* one left out is older than the last that is listed
C27_Witness ==
    /\ Len(pageDetections) = 6
    /\ Len(recentDetections) = 5
    /\ recentDetections[1].timestamp > recentDetections[5].timestamp
    /\ \E k \in 1..Len(pageDetections) :
          /\ pageDetections[k].id \notin RecentIds
          /\ pageDetections[k].timestamp < recentDetections[5].timestamp

(***************************************************************************)
(* Properties of the overlay of the camera (SpecOverlay).                  *)
(***************************************************************************)
OverlayIds == {overlay[i].id : i \in 1..Len(overlay)}

\* the overlay never holds more than five detections
C28_AtMostFive == Len(overlay) <= 5

\* a detection added to an overlay of five takes the place of the oldest
C28_EvictsOldest ==
    [][(Len(overlay) = 5 /\ OverlayIds' \ OverlayIds # {})
          => /\ Len(overlay') = 5
             /\ SubSeq(overlay', 1, 4) = Tail(overlay)
             /\ overlay'[5].id \notin OverlayIds]_vars

\* C28: after any sequence of ticks and expiries the overlay holds at most
\* five detections, and adding one when five are present evicts the oldest.
C28_RingOfFive == []C28_AtMostFive /\ C28_EvictsOldest

\* six detections were made and none expired: the overlay holds the last
\* five, and the timer of the first one, evicted, is still pending
C28_Witness ==
    /\ Len(overlay) = 5
    /\ \E id \in timers \ OverlayIds : id < overlay[1].id
    /\ \A i \in 1..4 : overlay[i].id < overlay[i + 1].id

(***************************************************************************)
(* Properties of the removal timers of the overlay (FairSpecExpiry).       *)
(***************************************************************************)
\* every detection in the overlay has its removal timer pending, whether
\* recording is on or off and whatever became of its submission
C29_TimerPending == OverlayIds \subseteq timers

\* C29: every detection added to the overlay is removed from it when its
\* timer fires, also when recording was stopped while the timer was
\* pending and whether or not its submission succeeded; once the ticker is
\* stopped the overlay eventually becomes empty (unless it is restarted).
C29_OverlaysExpire ==
    /\ []C29_TimerPending
    /\ \A id \in TimerIds : (id \in OverlayIds) ~> (id \notin OverlayIds)
    /\ (ticker = 0) ~> (ticker > 0 \/ overlay = <<>>)

\* recording was stopped, a submission failed, and the overlay of the
\* detection that was made has been removed by its timer
C29_Witness ==
    /\ ~isRecording
    /\ ticker = 0
    /\ clientNow >= 1
    /\ lastLog \in {"Error saving detection:", "Error saving to database:"}
    /\ overlay = <<>>
    /\ timers = {}

(***************************************************************************)
(* Properties of the submitted record (SpecCamera).                        *)
(***************************************************************************)
SubmittedFields ==
    {"lat", "lon", "object_type", "context", "confidence", "timestamp"}

\* what is submitted, in flight or committed, has the six fields only, with
\* the type, context and confidence the detector gave
C30_SixFields ==
    /\ \A call \in calls :
          /\ DOMAIN call.data = SubmittedFields
          /\ call.data.object_type = call.detection.type
          /\ call.data.context = call.detection.context
          /\ call.data.confidence = call.detection.confidence
    /\ request # NoRequest => DOMAIN request = SubmittedFields
    /\ \A k \in 1..Len(detections) :
          DOMAIN detections[k] = SubmittedFields \cup {"id", "created_at"}

\* the record of a new submission carries the location the camera has
C30_AtCurrentLocation ==
    [][\A call \in calls' \ calls :
          call.phase = "sent"
             => /\ camLocation # NoLocation
                /\ call.data.lat = camLocation.lat
                /\ call.data.lon = camLocation.lon
                /\ call.data.timestamp = clientNow' * TimeScale]_vars

\* C30: the record submitted for a candidate contains exactly lat, lon,
\* object_type, context, confidence and the observation timestamp, with the
\* detector's type, context and confidence and the camera's current
\* location; the bounding box and the client-side id are in no request and
\* in no committed row.
C30_SubmittedRecord == []C30_SixFields /\ C30_AtCurrentLocation

(***************************************************************************)
(* Properties of catch-up against the live feed (Spec).                    *)
(***************************************************************************)
\* the rows committed after the snapshot of load i of consumer c was taken
\* that the consumer has merged from the live feed: they reached the view
\* while the query was in flight
MergedInFlight(c, i) ==
    {k \in (loads[c][i].at + 1)..Len(detections) :
        /\ detections[k].id \in IdsOf(received[c])
        /\ detections[k].id \in IdsOf(mapDetections[c])}

\* C31: applying the result of a catch-up query never removes from the
\* local view an event that was merged from the live feed while that query
\* was in flight.
C31_CatchUpKeepsLiveEvents ==
    [][\A c \in SyncConsumers : \A i \in 1..Len(loads[c]) :
          (/\ loads[c][i].phase = "answered"
           /\ loads'[c] = RemoveAt(loads[c], i)
           /\ mounted'[c])
             => \A k \in MergedInFlight(c, i) :
                    detections[k].id \in IdsOf(mapDetections'[c])]_vars

\* C32: activation leaves no gap: an event committed after the catch-up
\* snapshot was taken and before the subscription became active is
\* eventually in the local view of the consumer, once the catch-up result
\* is applied and while the subscription stays connected.
C32_NoGapOnActivation ==
    \A c \in SyncConsumers : \A k \in 1..MaxStore :
        (/\ mounted[c]
         /\ chan[c] = "subscribed"
         /\ k <= joinedAt[c]
         /\ Len(loads[c]) = 1
         /\ loads[c][1].phase = "answered"
         /\ loads[c][1].at < k)
            ~> (/\ k <= Len(detections)
                /\ detections[k].id \in IdsOf(mapDetections[c]))

(***************************************************************************)
(* Properties of overlapping catch-up queries (SpecRefresh).               *)
(***************************************************************************)
\* C33: when two catch-up queries are in flight at once, the response to
\* the earlier-issued one never overwrites the result of the later-issued
\* one: a response that changes the view is not that of a call issued
\* before the call whose response was applied last.
C33_LaterQueryWins ==
    [][\A c \in SyncConsumers : \A i \in 1..Len(loads[c]) :
          (/\ loads[c][i].phase = "answered"
           /\ loads'[c] = RemoveAt(loads[c], i)
           /\ mapDetections'[c] = loads[c][i].data
           /\ mapDetections'[c] # mapDetections[c])
             => i > stale[c]]_vars

(***************************************************************************)
(* Properties of the page's list (SpecProducer, SpecCandidate, SpecCamera).*)
(***************************************************************************)
\* saveDetectionToDatabase resumes after an insert that succeeded
SaveSucceeds(call) ==
    /\ call.phase = "answered"
    /\ call.error = NoError
    /\ calls' = calls \ {call}
    /\ lastLog' = "New detection:"

\* C34: every detection whose insert succeeds is added exactly once to the
\* page's list of known events, whatever the state of the page's own
\* location lookup: when saveDetectionToDatabase resumes after a successful
\* insert the page appends one event, that detection.
C34_SavedDetectionIsListed ==
    [][\A call \in calls :
          SaveSucceeds(call)
             => /\ Len(pageUpdates') = Len(pageUpdates) + 1
                /\ pageUpdates'[Len(pageUpdates')].id = call.detection.id
                /\ \A k \in 1..Len(Held) :
                      Held[k].id # call.detection.id]_vars

SameNumber(v, w) == DecLeq(v, w) /\ DecLeq(w, v)

\* the events the page appends in the step that are the detection of a
\* call
ListedFor(call) ==
    {k \in 1..Len(pageUpdates') :
        /\ k > Len(pageUpdates)
        /\ pageUpdates'[k].id = call.detection.id}

\* C35: the event added to the page's list for a stored detection carries
\* the latitude, longitude and observation timestamp of the record that
\* was persisted for it.
C35_ListedAsPersisted ==
    [][\A call \in calls :
          SaveSucceeds(call)
             => \A k \in ListedFor(call) :
                   LET listed == pageUpdates'[k]
                       stored == CoerceRow(call.data)
                   IN  /\ listed.lat.offset = 0
                       /\ listed.lon.offset = 0
                       /\ SameNumber(listed.lat.base, stored.lat)
                       /\ SameNumber(listed.lon.base, stored.lon)
                       /\ listed.timestamp = stored.timestamp]_vars

\* C36: every candidate the ticker makes up leads to exactly one insert
\* attempt, in every state of the camera's location lookup (resolved,
\* fallen back to the default, or still pending).
C36_OneInsertPerCandidate ==
    [][TickMade => \E call \in calls' \ calls :
                      /\ NewCalls = {call}
                      /\ call.data.object_type = overlay'[Len(overlay')].type]_vars

\* the events the page knows: those it has rendered and those appended
\* since
KnownIds == {Held[k].id : k \in 1..Len(Held)}

\* C37: from the moment recording is toggled off until it is toggled on
\* again, no candidate is generated, no insert is issued and the page's
\* list of known events does not change.
C37_QuietWhileOff ==
    [][(~isRecording /\ ~isRecording')
          => /\ ~TickMade
             /\ overlay' = overlay \/ Len(overlay') < Len(overlay)
             /\ \A call \in calls' \ calls : call.phase # "sent"
             /\ KnownIds' = KnownIds]_vars

\* C38: at most one ticker of the producer is active at any time, and none
\* while recording is off, after any sequence of start/stop toggles and
\* location updates: the interval before is cleared before a new one is
\* started.
C38_SingleTicker ==
    /\ ticker \in {0, 1}
    /\ ~isRecording => ticker = 0

\* the camera's location arrived while recording was on, it was rendered,
\* the effect replaced the interval, and the new one has ticked
C38_Witness ==
    /\ isRecording
    /\ lastGeo = "success"
    /\ camLocation # NoLocation
    /\ closureCam = camLocation
    /\ ~effectDue
    /\ ticker = 1
    /\ overlay # <<>>
    /\ calls # {}

====
